---- MODULE Spec2Model ----
(***************************************************************************)
(* Model of the fleet-service: the Hono Router (index.tsx), the Durable     *)
(* Object InventoryAgent (durable-objects/fleet-manager.ts), its base class *)
(* BaseFleetManager and the InventoryService stock logic.                   *)
(*                                                                          *)
(* Strings that the code builds, splits and compares (URL paths, fleet      *)
(* paths, Durable Object names) are sequences of tokens: "/" and ":" are    *)
(* tokens of their own, a path segment is one token.  "/a/b" is             *)
(* <<"/","a","/","b">>, the root "/" is <<"/">>, the empty string is <<>>.  *)
(***************************************************************************)
EXTENDS Integers, Sequences, FiniteSets, TLC

\* ------------------------------------------------------------------------
\* Bounds of the model
\* ------------------------------------------------------------------------
\* client-issued operations (HTTP requests, upgrades, frames, closes) per run
MaxOps == 2
MaxStockOps == 3
MaxFleetOps == 4
MaxTenantOps == 2
MaxChatOps == 4
MaxPersistOps == 4
MaxCycleOps == 5
MaxPurgeOps == 6
MaxSubtreeOps == 5
MaxNameOps == 3
MaxCanonOps == 3
MaxRouterOps == 2
\* connections of the page script that fail or drop per run
MaxClientOps == 10
\* operations per run of the reads and writes of one agent
MaxReadOps == 3
\* operations per run of the agents that are reached under two paths
MaxOwnerOps == 4
\* operations per run of the sessions of an agent with a long chat history
MaxRingOps == 3
\* operations per run of the chat sessions across day boundaries
MaxDayOps == 4
\* client events per run of the keep-alive check, and the time it covers
MaxIdleOps == 3
MaxClock == 135000

\* stock updates a client posts per run of the propagation
MaxPropOps == 2

\* client operations per run of the inventory sync, and updates per batch
MaxSyncOps == 2
MaxBatch == 2

\* client operations and broken connections per run of the failing sends
MaxSendOps == 4

\* client operations per run of the requests with any verb
MaxVerbOps == 3

\* client operations per run of the updates that meet a reload
MaxReloadOps == 5

\* client operations and hibernations per run of the hibernating agent
MaxHibernateOps == 5

\* days the clock advances per run
MaxDays == 31
\* largest quantity a stock update carries
MaxQuantity == 2
\* subscription sessions opened per run
MaxSessions == 2

Tenants == {"demo", "acme"}
Names == {"a"}
Skus == {"SKU-1"}
Contents == {"hi"}
\* quantities a client can put into a frame or body: JSON carries any integer
Quantities == {-1, MaxQuantity, 11}
Operations == {"set", "increment", "decrement"}

\* ------------------------------------------------------------------------
\* String helpers (JavaScript string methods on token sequences)
\* ------------------------------------------------------------------------
Root == <<"/">>
Empty == << >>
\* value of headers.get(..) when the header is not set
Absent == <<"null">>

Max(x, y) == IF x >= y THEN x ELSE y
Min(x, y) == IF x <= y THEN x ELSE y

EndsWith(s, suf) ==
    /\ Len(s) >= Len(suf)
    /\ SubSeq(s, Len(s) - Len(suf) + 1, Len(s)) = suf

StartsWith(s, pre) ==
    /\ Len(s) >= Len(pre)
    /\ SubSeq(s, 1, Len(pre)) = pre

\* s.slice(0, -n) counted in tokens
DropLast(s, n) == SubSeq(s, 1, Len(s) - n)

\* s.indexOf(sub): first position (1-based) where sub occurs, 0 when absent
IndexOf(s, sub) ==
    LET hits == {i \in 1 .. (Len(s) - Len(sub) + 1) :
                    SubSeq(s, i, i + Len(sub) - 1) = sub}
    IN IF hits = {} THEN 0 ELSE CHOOSE i \in hits : \A j \in hits : i <= j

Includes(s, sub) == IndexOf(s, sub) # 0

\* s.split('/').filter(Boolean)
SplitPath(s) == SelectSeq(s, LAMBDA t : t # "/")

\* parts.join('/')
RECURSIVE JoinPath(_)
JoinPath(parts) ==
    IF Len(parts) = 0 THEN Empty
    ELSE IF Len(parts) = 1 THEN <<parts[1]>>
    ELSE <<parts[1], "/">> \o JoinPath(Tail(parts))

\* the canonical string of a path given as its list of segments (spec 3)
RECURSIVE CanonicalPath(_)
CanonicalPath(segs) ==
    IF Len(segs) = 0 THEN Root
    ELSE IF Len(segs) = 1 THEN <<"/", segs[1]>>
    ELSE <<"/", segs[1]>> \o CanonicalPath(Tail(segs))

\* ------------------------------------------------------------------------
\* Router (index.tsx)
\* ------------------------------------------------------------------------
\* const apiEndpoints = [...] in declaration order
apiEndpoints ==
    << <<"/", "messages">>, <<"/", "state">>, <<"/", "increment">>,
       <<"/", "delete-subtree">>, <<"/", "message">>,
       <<"/", "inventory", "/", "stock">>, <<"/", "inventory", "/", "query">>,
       <<"/", "inventory", "/", "sync">>, <<"/", "inventory", "/", "alerts">>,
       <<"/", "ai", "/", "analyze">>, <<"/", "ai", "/", "forecast">>,
       <<"/", "ai", "/", "insights">>, <<"/", "debug", "/", "locations">>,
       <<"/", "debug", "/", "db">> >>

\* tenant and tenant-relative path of a request (host labels, URL path)
DeriveTenant(host, path) ==
    LET pathParts == SplitPath(path)
        derived ==
            IF Len(host) >= 3 /\ host[1] # "www"
            THEN [tenantId |-> host[1], tenantPath |-> path]
            ELSE IF StartsWith(path, <<"/", "tenant", "/">>)
            THEN IF Len(pathParts) >= 2
                 THEN [tenantId |-> pathParts[2],
                       tenantPath |-> <<"/">> \o JoinPath(SubSeq(pathParts, 3, Len(pathParts)))]
                 ELSE [tenantId |-> "", tenantPath |-> path]
            ELSE IF Len(pathParts) >= 1
                 THEN [tenantId |-> pathParts[1],
                       tenantPath |-> <<"/">> \o JoinPath(Tail(pathParts))]
                 ELSE [tenantId |-> "", tenantPath |-> path]
    IN IF derived.tenantId = "" THEN [derived EXCEPT !.tenantId = "demo"] ELSE derived

\* const tenantFleetId = `${tenantId}:${fleetPath}`
TenantFleetId(tenantId, fleetPath) == <<tenantId, ":">> \o fleetPath

\* handleWebSocketUpgrade(c, path, tenantId)
HandleWebSocketUpgrade(path, tenantId) ==
    LET fleetPath == IF EndsWith(path, <<"/", "ws">>) THEN DropLast(path, 2) ELSE path
    IN [kind |-> "forward",
        id |-> TenantFleetId(tenantId, fleetPath),
        fleetPath |-> fleetPath,
        tenantId |-> tenantId,
        endpoint |-> path,
        upgrade |-> TRUE]

IsApiRequest(p, method) ==
    \/ Includes(p, <<"/", "api", "/">>)
    \/ EndsWith(p, <<"/", "messages">>)
    \/ EndsWith(p, <<"/", "state">>)
    \/ EndsWith(p, <<"/", "increment">>)
    \/ EndsWith(p, <<"/", "delete-subtree">>)
    \/ EndsWith(p, <<"/", "inventory", "/", "stock">>)
    \/ EndsWith(p, <<"/", "inventory", "/", "query">>)
    \/ EndsWith(p, <<"/", "inventory", "/", "sync">>)
    \/ EndsWith(p, <<"/", "inventory", "/", "alerts">>)
    \/ EndsWith(p, <<"/", "ai", "/", "analyze">>)
    \/ EndsWith(p, <<"/", "ai", "/", "forecast">>)
    \/ EndsWith(p, <<"/", "ai", "/", "insights">>)
    \/ method # "GET"

\* the first endpoint of apiEndpoints the path ends with, 0 when none
MatchingEndpoint(p) ==
    LET hits == {i \in 1 .. Len(apiEndpoints) : EndsWith(p, apiEndpoints[i])}
    IN IF hits = {} THEN 0 ELSE CHOOSE i \in hits : \A j \in hits : i <= j

\* app.get('/') and app.all('/*'): what the Router does with one request
Route(host, path, method, upgrade) ==
    IF path = Root /\ method = "GET"
    THEN [kind |-> "ui", status |-> 200, path |-> Root,
          tenantId |-> IF Len(host) >= 3 /\ host[1] # "www" THEN host[1] ELSE "demo"]
    ELSE
    LET d == DeriveTenant(host, path)
        tenantPath == d.tenantPath
        m == MatchingEndpoint(tenantPath)
        fp1 == IF m = 0 THEN tenantPath ELSE DropLast(tenantPath, Len(apiEndpoints[m]))
        ep1 == IF m = 0 THEN Root ELSE apiEndpoints[m]
        inv == IndexOf(tenantPath, <<"/", "inventory", "/">>)
        fp2 == IF inv = 0 THEN fp1
               ELSE IF inv = 1 THEN Root ELSE SubSeq(tenantPath, 1, inv - 1)
        ep2 == IF inv = 0 THEN ep1 ELSE SubSeq(tenantPath, inv, Len(tenantPath))
        isWs == EndsWith(tenantPath, <<"/", "ws">>)
        fp3 == IF isWs THEN DropLast(tenantPath, 2) ELSE fp2
        ep3 == IF isWs THEN Root ELSE ep2
        fleetPath == IF fp3 = Empty THEN Root ELSE fp3
    IN IF upgrade THEN HandleWebSocketUpgrade(tenantPath, d.tenantId)
       ELSE IF method = "GET" /\ ~IsApiRequest(tenantPath, method)
       THEN [kind |-> "ui", status |-> 200,
             path |-> IF isWs THEN DropLast(tenantPath, 2) ELSE tenantPath,
             tenantId |-> d.tenantId]
       ELSE [kind |-> "forward",
             id |-> TenantFleetId(d.tenantId, fleetPath),
             fleetPath |-> fleetPath,
             tenantId |-> d.tenantId,
             endpoint |-> ep3,
             upgrade |-> FALSE]

\* ------------------------------------------------------------------------
\* State
\* ------------------------------------------------------------------------
VARIABLES
    inst,       \* Durable Object name -> in-memory InventoryAgent instance
    store,      \* Durable Object name -> its private SQLite tables
    socks,      \* sequence of client sessions: [obj, open, frames]
    acts,       \* sequence of handler activations, in order of creation
    nextMsg,    \* source of stored-message ids (Date.now() plus random suffix)
    nextSeq,    \* number of handlers started so far (acceptance order)
    ops,        \* client-issued operations so far
    forwards,   \* history: requests the Router forwarded
    served,     \* history: name -> tenants whose requests the Router sent there
    touched,    \* history: name -> tenants whose operations ran a handler there
    lastUpdate, \* history: the stock update applied last
    routed,     \* history: what the Router did with the requests it logged
    client,     \* the page script of one browser tab: its socket and reconnect timer
    now         \* the clock (Date.now()), in days since the start of the run

vars == <<inst, store, socks, acts, nextMsg, nextSeq, ops, forwards,
          served, touched, lastUpdate, routed, client, now>>

\* in-memory ring size of BaseFleetManager.storeMessage
MsgMemRing == 100
\* default lowStockThreshold of a new item
DefaultThreshold == 10

Put(f, k, v) == [x \in (DOMAIN f) \cup {k} |-> IF x = k THEN v ELSE f[x]]
EmptyMap == [x \in {} |-> 0]
LastN(s, n) == IF Len(s) > n THEN SubSeq(s, Len(s) - n + 1, Len(s)) ELSE s

\* the part of the state a handler works on
World == [inst |-> inst, store |-> store, socks |-> socks, nextMsg |-> nextMsg, now |-> now]

\* ------------------------------------------------------------------------
\* BaseFleetManager: storage
\* ------------------------------------------------------------------------
\* the tables after initializeSchema on a new object
NewStore ==
    [fleet_state |-> EmptyMap,
     inventory_items |-> EmptyMap,
     stored_messages |-> << >>,
     inventory_transactions |-> << >>,
     inventory_analysis |-> << >>,
     inventory_decisions |-> << >>,
     chat_statistics |-> EmptyMap]

\* sqlStorage.exec(query, ...bindings) takes the bindings as the arguments
\* after the query.  A call that passes all its values in one array hands
\* over one binding; the statement then fails with a binding-count error
\* unless it has exactly one placeholder.
ExecThrows(placeholders, arguments) == placeholders # arguments

\* saveState() without the loop over the inventory items
SaveStateFleetOnly(w, n) ==
    LET o == w.inst[n]
        row == [counter |-> o.counter, agents |-> o.agents, agent_type |-> o.agentType]
    IN [w EXCEPT !.store[n].fleet_state = Put(@, o.currentPath, row)]

\* saveState(): INSERT OR REPLACE the fleet_state row of currentPath and
\* one inventory_items row per in-memory item (primary key sku)
SaveState(w, n) ==
    LET o == w.inst[n]
        s == w.store[n]
        row == [counter |-> o.counter, agents |-> o.agents, agent_type |-> o.agentType]
        items == [k \in (DOMAIN s.inventory_items) \cup (DOMAIN o.inventory) |->
                    IF k \in DOMAIN o.inventory
                    THEN [current_stock |-> o.inventory[k].currentStock,
                          low_stock_threshold |-> o.inventory[k].lowStockThreshold,
                          location |-> o.currentPath]
                    ELSE s.inventory_items[k]]
    IN [w EXCEPT !.store[n] =
            [s EXCEPT !.fleet_state = Put(s.fleet_state, o.currentPath, row),
                      !.inventory_items = items]]

\* the cache key of the GET /inventory/stock response
InventoryKey(path) == <<"inventory:">> \o path

\* A cached GET /inventory/stock response holds the item objects the map had
\* when it was built: skus are its items, frozen the items whose object the
\* map has replaced since, with the value they had then.  The others are
\* still the map's objects and read as the map's items
CachedItems(o, entry) ==
    [k \in entry.skus |-> IF k \in DOMAIN entry.frozen THEN entry.frozen[k]
                          ELSE o.inventory[k]]

\* the cache after the map's objects of the skus in replaced were replaced
\* The handler of a stock update keeps the item object it took from the
\* inventory across its awaits.  held maps the activation of such a handler
\* to that object when loadStateFromStorage has meanwhile put a new object
\* in the inventory for the item (detached), which no later update changes.
HeldNone == [sku |-> "", detached |-> FALSE, currentStock |-> 0, lowStockThreshold |-> 0]

\* the item object that the handler of activation a holds for sku
HeldItem(o, a, sku) ==
    IF a \in DOMAIN o.held /\ o.held[a].detached
    THEN [currentStock |-> o.held[a].currentStock,
          lowStockThreshold |-> o.held[a].lowStockThreshold]
    ELSE o.inventory[sku]

\* loadStateFromStorage replaces the item objects of the items in replaced
DetachHeld(o, replaced) ==
    [a \in DOMAIN o.held |->
        IF ~o.held[a].detached /\ o.held[a].sku \in replaced
        THEN [o.held[a] EXCEPT !.detached = TRUE,
                               !.currentStock = o.inventory[o.held[a].sku].currentStock,
                               !.lowStockThreshold =
                                  o.inventory[o.held[a].sku].lowStockThreshold]
        ELSE o.held[a]]

DetachItems(o, replaced) ==
    [key \in DOMAIN o.cache |->
        IF key[1] = "inventory:"
        THEN LET entry == o.cache[key]
                 gone == (entry.skus \ DOMAIN entry.frozen) \cap replaced
             IN [entry EXCEPT !.frozen =
                    [k \in (DOMAIN @) \cup gone |->
                        IF k \in DOMAIN @ THEN @[k] ELSE o.inventory[k]]]
        ELSE o.cache[key]]

\* loadStateFromStorage(): counter, agents and agent type are taken from the
\* row of currentPath when there is one and left as they are otherwise; the
\* inventory rows of currentPath are set over the in-memory map, as new item
\* objects
LoadStateFromStorage(w, n) ==
    LET o == w.inst[n]
        s == w.store[n]
        hasRow == o.currentPath \in DOMAIN s.fleet_state
        row == s.fleet_state[o.currentPath]
        here == {k \in DOMAIN s.inventory_items :
                    s.inventory_items[k].location = o.currentPath}
        inv == [k \in (DOMAIN o.inventory) \cup here |->
                    IF k \in here
                    THEN [currentStock |-> s.inventory_items[k].current_stock,
                          lowStockThreshold |-> s.inventory_items[k].low_stock_threshold]
                    ELSE o.inventory[k]]
    IN [w EXCEPT !.inst[n] =
            [o EXCEPT !.counter = IF hasRow THEN row.counter ELSE @,
                      !.agentType = IF hasRow THEN row.agent_type ELSE @,
                      !.agents = IF hasRow THEN row.agents ELSE @,
                      !.inventory = inv,
                      !.cache = DetachItems(o, here),
                      !.held = DetachHeld(o, here),
                      !.stateLoaded = TRUE]]

\* storeMessage(): one stored_messages row and one entry of the in-memory ring
StoreMessage(w, n, fromAgent, toAgent, content, messageType) ==
    LET o == w.inst[n]
        s == w.store[n]
        message == [id |-> w.nextMsg, timestamp |-> w.now, from_agent |-> fromAgent,
                    to_agent |-> toAgent, content |-> content, message_type |-> messageType]
        row == message @@ [location |-> o.currentPath]
    IN [w EXCEPT !.store[n].stored_messages = Append(@, row),
                 !.inst[n].messages = LastN(Append(@, message), MsgMemRing),
                 !.nextMsg = @ + 1]

IsChat(m) == m.from_agent \in {<<"user">>, <<"ai-assistant">>}

\* the retention period of stored messages, in days
RetentionDays == 30

\* cleanupOldMessages() with the in-memory ring left as it is
CleanupOldMessagesStoreOnly(w, n) ==
    LET o == w.inst[n]
        cutoff == w.now - RetentionDays
    IN [w EXCEPT !.store[n].stored_messages =
            SelectSeq(@, LAMBDA r : ~(r.location = o.currentPath /\ r.timestamp < cutoff))]

\* cleanupOldMessages(): DELETE the rows of currentPath with timestamp <
\* cutoff, keep the ring entries with timestamp >= cutoff
CleanupOldMessages(w, n) ==
    LET o == w.inst[n]
        cutoff == w.now - RetentionDays
    IN [w EXCEPT !.store[n].stored_messages =
            SelectSeq(@, LAMBDA r : ~(r.location = o.currentPath /\ r.timestamp < cutoff)),
                 !.inst[n].messages = SelectSeq(@, LAMBDA m : m.timestamp >= cutoff)]

\* cleanupOldChatMessages(): DELETE the chat rows of currentPath older than
\* 30 days
CleanupOldChatMessages(w, n) ==
    LET o == w.inst[n]
        thirtyDaysAgo == w.now - RetentionDays
    IN [w EXCEPT !.store[n].stored_messages =
            SelectSeq(@, LAMBDA r : ~(r.location = o.currentPath /\ IsChat(r)
                                      /\ r.timestamp < thirtyDaysAgo))]

\* loadChatHistory(): the chat rows of currentPath are pushed onto the ring
LoadChatHistory(w, n) ==
    LET o == w.inst[n]
        rows == SelectSeq(w.store[n].stored_messages,
                          LAMBDA r : r.location = o.currentPath /\ IsChat(r))
        limit == IF Len(rows) > 100 THEN 100 ELSE Len(rows)
        loaded == [i \in 1 .. limit |->
                     [id |-> rows[i].id, timestamp |-> rows[i].timestamp,
                      from_agent |-> rows[i].from_agent,
                      to_agent |-> rows[i].to_agent, content |-> rows[i].content,
                      message_type |-> rows[i].message_type]]
    IN [w EXCEPT !.inst[n].messages = LastN(@ \o loaded, MsgMemRing)]

\* ------------------------------------------------------------------------
\* BaseFleetManager: subscriptions
\* ------------------------------------------------------------------------
\* sendToWebSocket() if its catch kept the subscription
SendToWebSocketKeeping(w, ws, frame, op) ==
    IF w.socks[ws].open /\ ~w.socks[ws].broken
    THEN [w EXCEPT !.socks[ws].frames = Append(@, frame @@ [op |-> op])]
    ELSE w

\* sendToWebSocket(): the frame is sent when the socket is open (readyState 1),
\* and a socket whose send throws leaves the subscriptions; op is the
\* activation whose handler sends it
SendToWebSocket(w, ws, frame, op) ==
    IF w.socks[ws].open /\ w.socks[ws].broken
    THEN [w EXCEPT !.inst[w.socks[ws].obj].websockets = @ \ {ws}]
    ELSE IF w.socks[ws].open
    THEN [w EXCEPT !.socks[ws].frames = Append(@, frame @@ [op |-> op])]
    ELSE w

\* the subscriptions of object n whose send throws
FailingSends(w, n) == {i \in w.inst[n].websockets : w.socks[i].open /\ w.socks[i].broken}

\* broadcastToWebSockets() that stops after the first socket
BroadcastToWebSocketsFirstOnly(w, n, frame, op) ==
    [w EXCEPT !.socks = [i \in DOMAIN w.socks |->
        IF i \in w.inst[n].websockets /\ w.socks[i].open
           /\ \A j \in w.inst[n].websockets : i <= j
        THEN [w.socks[i] EXCEPT !.frames = Append(@, frame @@ [op |-> op])]
        ELSE w.socks[i]]]

\* broadcastToWebSockets(): one send per socket of state.websockets
BroadcastToWebSockets(w, n, frame, op) ==
    [w EXCEPT !.socks = [i \in DOMAIN w.socks |->
                IF i \in w.inst[n].websockets /\ w.socks[i].open /\ ~w.socks[i].broken
                THEN [w.socks[i] EXCEPT !.frames = Append(@, frame @@ [op |-> op])]
                ELSE w.socks[i]],
              !.inst[n].websockets = @ \ FailingSends(w, n)]

StateFrame(o) == [type |-> "state", counter |-> o.counter, agents |-> o.agents]

\* broadcastState(): skipped until initialization is complete
BroadcastState(w, n, op) ==
    IF w.inst[n].initializationComplete
    THEN BroadcastToWebSockets(w, n, StateFrame(w.inst[n]), op)
    ELSE w

\* ------------------------------------------------------------------------
\* InventoryAgent: construction and the prologue of fetch()
\* ------------------------------------------------------------------------
\* the fields set by the constructors before blockConcurrencyWhile
NewAgent ==
    [tenantId |-> "demo",
     currentPath |-> Root,
     counter |-> 0,
     agents |-> {},
     websockets |-> {},
     messages |-> << >>,
     inventory |-> EmptyMap,
     agentType |-> "orchestrator",
     stateLoaded |-> FALSE,
     initializationComplete |-> FALSE,
     cache |-> EmptyMap,
     held |-> EmptyMap,
     chatStats |-> [messagesToday |-> 0, actionsExecuted |-> 0,
                    successfulActions |-> 0, successRate |-> <<0, 1>>]]

\* ------------------------------------------------------------------------
\* InventoryAgent: chat statistics.  successRate is a JavaScript number; it
\* is kept here as the exact fraction <<numerator, denominator>>.  The clock
\* counts UTC days, so the date of a chat_statistics row is the value of the
\* clock.
\* ------------------------------------------------------------------------
\* the primary key (location, date) of a chat_statistics row
StatsKey(path, today) == [location |-> path, date |-> today]

\* actionsExecuted > 0 ? (successfulActions / actionsExecuted) * 100 : 0
SuccessRate(stats) ==
    IF stats.actionsExecuted > 0
    THEN <<stats.successfulActions * 100, stats.actionsExecuted>>
    ELSE <<0, 1>>

\* Math.round(successRate * 100) / 100, in hundredths
Round2(rate) == (200 * rate[1] + rate[2]) \div (2 * rate[2])

\* loadChatStatistics(): SELECT ... WHERE location = ? AND date = ? with the
\* two values in one array
LoadChatStatistics(w, n) ==
    LET o == w.inst[n]
        rows == w.store[n].chat_statistics
        key == StatsKey(o.currentPath, w.now)
    IN IF ExecThrows(2, 1) \/ key \notin DOMAIN rows THEN w
       ELSE [w EXCEPT !.inst[n].chatStats =
                [messagesToday |-> rows[key].messages_today,
                 actionsExecuted |-> rows[key].actions_executed,
                 successfulActions |-> rows[key].successful_actions,
                 successRate |-> rows[key].success_rate]]

\* saveChatStatistics() with the success rate left as it was
SaveChatStatisticsStale(w, n) ==
    LET stats == w.inst[n].chatStats
        row == [messages_today |-> stats.messagesToday,
                actions_executed |-> stats.actionsExecuted,
                successful_actions |-> stats.successfulActions,
                success_rate |-> stats.successRate]
    IN IF ExecThrows(10, 1) THEN w
       ELSE [w EXCEPT !.store[n].chat_statistics =
                Put(@, StatsKey(w.inst[n].currentPath, w.now), row)]

\* saveChatStatistics(): the success rate is recomputed, then INSERT OR
\* REPLACE with ten placeholders and the ten values in one array
SaveChatStatistics(w, n) ==
    LET stats == [w.inst[n].chatStats EXCEPT !.successRate = SuccessRate(w.inst[n].chatStats)]
        w1 == [w EXCEPT !.inst[n].chatStats = stats]
        row == [messages_today |-> stats.messagesToday,
                actions_executed |-> stats.actionsExecuted,
                successful_actions |-> stats.successfulActions,
                success_rate |-> stats.successRate]
    IN IF ExecThrows(10, 1) THEN w1
       ELSE [w1 EXCEPT !.store[n].chat_statistics =
                Put(@, StatsKey(w.inst[n].currentPath, w.now), row)]

\* broadcastChatStats()
BroadcastChatStats(w, n, op) ==
    LET stats == w.inst[n].chatStats
    IN BroadcastToWebSockets(w, n,
          [type |-> "chatStats", messagesToday |-> stats.messagesToday,
           actionsExecuted |-> stats.actionsExecuted,
           successRate |-> Round2(stats.successRate)], op)

\* updateChatStats(type)
UpdateChatStats(w, n, type, op) ==
    LET w1 == CASE type = "message" -> [w EXCEPT !.inst[n].chatStats.messagesToday = @ + 1]
                [] type = "action" -> [w EXCEPT !.inst[n].chatStats.actionsExecuted = @ + 1]
                [] type = "success" ->
                       [w EXCEPT !.inst[n].chatStats.successfulActions = @ + 1]
                [] OTHER -> w
    IN BroadcastChatStats(SaveChatStatistics(w1, n), n, op)

\* env.FLEET_MANAGER.get(id): the object named n, constructed on first use.
\* Both constructors load under blockConcurrencyWhile, for the default path.
GetStub(w, n) ==
    IF n \in DOMAIN w.inst THEN w
    ELSE LET s0 == IF n \in DOMAIN w.store THEN w.store[n] ELSE NewStore
             w0 == [w EXCEPT !.inst = Put(w.inst, n, NewAgent),
                             !.store = Put(w.store, n, s0)]
             w1 == LoadStateFromStorage(w0, n)
             w2 == LoadChatHistory(LoadStateFromStorage(w1, n), n)
             w3 == CleanupOldChatMessages(LoadChatStatistics(w2, n), n)
         IN [w3 EXCEPT !.inst[n].initializationComplete = TRUE]

\* updateTenantAndPath()
UpdateTenantAndPath(w, n, tenantId, path) ==
    LoadChatHistory([w EXCEPT !.inst[n].tenantId = tenantId,
                              !.inst[n].currentPath = path], n)

LoadedKey(path) == <<"loaded:">> \o path
StateKey(path) == <<"state:">> \o path

\* fetch(), the periodic cleanup before the dispatch: drawn tells whether
\* Math.random() < 0.01 came out true for the request
PeriodicCleanup(w, n, drawn) == IF drawn THEN CleanupOldMessages(w, n) ELSE w

\* fetch(), lines up to the periodic cleanup: headers, owner fields, state load
FetchPrologue(w, n, tenantHdr, pathHdr) ==
    LET o == w.inst[n]
        tenantId == IF tenantHdr = Absent \/ tenantHdr = Empty THEN "demo" ELSE tenantHdr[1]
        fleetPath == pathHdr
        w1 == IF tenantId # o.tenantId \/ fleetPath # o.currentPath
              THEN UpdateTenantAndPath(w, n, tenantId,
                        IF fleetPath = Absent \/ fleetPath = Empty THEN Root ELSE fleetPath)
              ELSE w
        o1 == w1.inst[n]
        stateKey == LoadedKey(o1.currentPath)
    IN IF ~o1.stateLoaded \/ stateKey \notin DOMAIN o1.cache
       THEN LET w2 == LoadStateFromStorage(w1, n)
            IN [w2 EXCEPT !.inst[n].cache = Put(@, stateKey, TRUE)]
       ELSE w1

\* ------------------------------------------------------------------------
\* InventoryAgent: handlers.  A handler runs to its next await of a peer or
\* of an external collaborator; Res is the state it leaves, the point it is
\* suspended at ("done" when it returned) and the peer calls it issued.
\* ------------------------------------------------------------------------
Null == <<"null">>
System == <<"system">>
\* the sender prefixes of handleMessage and broadcastMessage
PrefixDirect == "direct:"
PrefixBroadcast == "broadcast:"

\* out is what the handler piece hands back (a response body, a value read),
\* status the HTTP status of its Response where the handler sets one here
Res(w, pc, calls) ==
    [w |-> w, pc |-> pc, calls |-> calls, out |-> 0, status |-> 0, advance |-> 0]
\* a WebSocket frame or request body: type is the frame type, the other
\* fields are those the frame or body of that kind carries; expired and
\* cleanup are what the clock and Math.random() come to while it is handled
NoBody == [type |-> "", name |-> "", from |-> Empty, content |-> "", mtype |-> "",
           sku |-> "", quantity |-> 0, operation |-> "", valid |-> TRUE,
           expired |-> FALSE, cleanup |-> FALSE, updates |-> << >>]

Call(to, endpoint, tenantHdr, pathHdr, body, targetTenant, targetPath) ==
    [to |-> to, endpoint |-> endpoint, method |-> "POST", tenantHdr |-> tenantHdr,
     pathHdr |-> pathHdr, body |-> body,
     targetTenant |-> targetTenant, targetPath |-> targetPath]

RECURSIVE SetToSeq(_)
SetToSeq(S) ==
    IF S = {} THEN << >>
    ELSE LET x == CHOOSE y \in S : TRUE IN <<x>> \o SetToSeq(S \ {x})

\* encodeURIComponent leaves letters, digits, "_" and "-" as they are; the
\* names that reach a child path in this model have no other character
EncodeURIComponent(name) == name

\* const childPath = this.currentPath === '/' ? `/${encodedName}` : `${this.currentPath}/${encodedName}`
ChildPath(o, name) ==
    IF o.currentPath = Root THEN <<"/", EncodeURIComponent(name)>>
    ELSE o.currentPath \o <<"/", EncodeURIComponent(name)>>

\* this.env.FLEET_MANAGER.idFromName(childPath) as the agents call it
ChildId(o, name) == ChildPath(o, name)

\* incrementCounter() that broadcasts the state without saving it
IncrementCounterUnsaved(w, n, a) ==
    LET w1 == [w EXCEPT !.inst[n].counter = @ + 1]
    IN Res(BroadcastState(w1, n, a), "done", << >>)

\* incrementCounter()
IncrementCounter(w, n, a) ==
    LET w1 == [w EXCEPT !.inst[n].counter = @ + 1]
    IN Res(BroadcastState(SaveState(w1, n), n, a), "done", << >>)

Without(f, keys) == [x \in (DOMAIN f) \ keys |-> f[x]]

\* ------------------------------------------------------------------------
\* Names.  A name is a JavaScript string; Chars gives the characters of the
\* names this model uses, Str the name a sequence of characters spells.
\* ------------------------------------------------------------------------
\* the longest name AgentNameSchema lets through
NameMax == 32
Name32 == "aaaaaaaaaaaaaaaaaaaaaaaaaaaaaaaa"
Name33 == "aaaaaaaaaaaaaaaaaaaaaaaaaaaaaaaaa"

AllNames ==
    {"", " ", "a", "b", " a ", "a b", "a_b-1", "a.b", "a/b", "a\tb", Name32, Name33}

Chars(name) ==
    CASE name = "" -> << >>
      [] name = " " -> <<" ">>
      [] name = "a" -> <<"a">>
      [] name = "b" -> <<"b">>
      [] name = " a " -> <<" ", "a", " ">>
      [] name = "a b" -> <<"a", " ", "b">>
      [] name = "a_b-1" -> <<"a", "_", "b", "-", "1">>
      [] name = "a.b" -> <<"a", ".", "b">>
      [] name = "a/b" -> <<"a", "/", "b">>
      [] name = "a\tb" -> <<"a", "\t", "b">>
      [] name = Name32 -> [i \in 1 .. NameMax |-> "a"]
      [] name = Name33 -> [i \in 1 .. NameMax + 1 |-> "a"]

Str(chars) == CHOOSE name \in AllNames : Chars(name) = chars

\* the characters of the classes a-z, A-Z, 0-9 and \s that occur in AllNames
Alphanumeric == {"a", "b", "1"}
WhiteSpace == {" ", "\t"}

\* name.trim(): white space is taken off both ends
RECURSIVE TrimStart(_)
TrimStart(chars) ==
    IF chars # << >> /\ Head(chars) \in WhiteSpace THEN TrimStart(Tail(chars)) ELSE chars

RECURSIVE TrimEnd(_)
TrimEnd(chars) ==
    IF chars # << >> /\ chars[Len(chars)] \in WhiteSpace
    THEN TrimEnd(DropLast(chars, 1)) ELSE chars

Trim(name) == Str(TrimEnd(TrimStart(Chars(name))))

\* AgentNameSchema: z.string().min(1).max(32).regex(/^[a-zA-Z0-9\s_-]+$/)
AgentNameSchema(name) ==
    /\ Len(Chars(name)) >= 1
    /\ Len(Chars(name)) <= NameMax
    /\ \A i \in 1 .. Len(Chars(name)) :
          Chars(name)[i] \in Alphanumeric \cup WhiteSpace \cup {"_", "-"}

\* createAgent(name) with the new name put in place of the children set
CreateAgentReplacing(w, n, a, rawName) ==
    LET o == w.inst[n]
        name == Trim(rawName)
    IN IF ~AgentNameSchema(name)
       THEN Res(BroadcastToWebSockets(w, n,
                    [type |-> "error", message |-> <<"Invalid input">>], a), "done", << >>)
       ELSE IF name \in o.agents
       THEN Res(BroadcastToWebSockets(w, n,
                    [type |-> "error", message |-> <<"exists", name>>], a), "done", << >>)
       ELSE LET w1 == SaveState([w EXCEPT !.inst[n].agents = {name}], n)
                w2 == [w1 EXCEPT !.inst[n].cache =
                          Without(@, {StateKey(o.currentPath), LoadedKey(o.currentPath)})]
                w3 == BroadcastToWebSockets(w2, n, [type |-> "agentCreated", name |-> name], a)
            IN Res(BroadcastState(w3, n, a), "done", << >>)

\* createAgent(name): the name is trimmed and validated; a validation error
\* and an existing name are reported by an error frame
CreateAgent(w, n, a, rawName) ==
    LET o == w.inst[n]
        name == Trim(rawName)
    IN IF ~AgentNameSchema(name)
       THEN Res(BroadcastToWebSockets(w, n,
                    [type |-> "error", message |-> <<"Invalid input">>], a), "done", << >>)
       ELSE IF name \in o.agents
       THEN Res(BroadcastToWebSockets(w, n,
                    [type |-> "error", message |-> <<"exists", name>>], a), "done", << >>)
       ELSE LET w1 == SaveState([w EXCEPT !.inst[n].agents = @ \cup {name}], n)
                w2 == [w1 EXCEPT !.inst[n].cache =
                          Without(@, {StateKey(o.currentPath), LoadedKey(o.currentPath)})]
                w3 == BroadcastToWebSockets(w2, n, [type |-> "agentCreated", name |-> name], a)
            IN Res(BroadcastState(w3, n, a), "done", << >>)

\* deleteAgent(name) up to the await of the child's /delete-subtree
DeleteAgentStart(w, n, a, name) ==
    LET o == w.inst[n]
    IN IF name \notin o.agents
       THEN Res(BroadcastToWebSockets(w, n,
                    [type |-> "error", message |-> <<"does not exist", name>>], a),
                "done", << >>)
       ELSE Res(w, "awaitChild",
                << Call(ChildId(o, name), <<"/", "delete-subtree">>, Absent, Absent, NoBody,
                        o.tenantId, ChildPath(o, name)) >>)

\* deleteAgent(name) after the await with a catch block that only reports
\* the failure and leaves the entry in place
DeleteAgentFinishKeeping(w, n, a, name, threw) ==
    LET o == w.inst[n]
        w1 == SaveState([w EXCEPT !.inst[n].agents = @ \ {name}], n)
    IN IF ~threw
       THEN LET w2 == [w1 EXCEPT !.inst[n].cache = Without(@, {StateKey(o.currentPath)})]
                w3 == BroadcastToWebSockets(w2, n, [type |-> "agentDeleted", name |-> name], a)
            IN Res(BroadcastState(w3, n, a), "done", << >>)
       ELSE LET w3 == BroadcastToWebSockets(w, n,
                         [type |-> "message", from |-> System,
                          content |-> <<"Deleted", name, "(cascade may have failed)">>], a)
            IN Res(BroadcastState(w3, n, a), "done", << >>)

\* deleteAgent(name) after the await: the try block when the call returned,
\* the catch block when it threw
DeleteAgentFinish(w, n, a, name, threw) ==
    LET o == w.inst[n]
        w1 == SaveState([w EXCEPT !.inst[n].agents = @ \ {name}], n)
    IN IF ~threw
       THEN LET w2 == [w1 EXCEPT !.inst[n].cache = Without(@, {StateKey(o.currentPath)})]
                w3 == BroadcastToWebSockets(w2, n, [type |-> "agentDeleted", name |-> name], a)
            IN Res(BroadcastState(w3, n, a), "done", << >>)
       ELSE LET w3 == BroadcastToWebSockets(w1, n,
                         [type |-> "message", from |-> System,
                          content |-> <<"Deleted", name, "(cascade may have failed)">>], a)
            IN Res(BroadcastState(w3, n, a), "done", << >>)

\* sendDirectMessage(agentName, message) up to the await of the child's /message
SendDirectMessageStart(w, n, a, agentName, message) ==
    LET o == w.inst[n]
    IN IF agentName \notin o.agents
       THEN Res(BroadcastToWebSockets(w, n,
                    [type |-> "error", message |-> <<"does not exist", agentName>>], a),
                "done", << >>)
       ELSE Res(StoreMessage(w, n, o.currentPath, <<agentName>>, message, "direct"),
                "awaitChild",
                << Call(ChildId(o, agentName), <<"/", "message">>, Absent, Absent,
                        [NoBody EXCEPT !.from = o.currentPath, !.content = message,
                                       !.mtype = "direct"],
                        o.tenantId, ChildPath(o, agentName)) >>)

\* sendDirectMessage after the await
SendDirectMessageFinish(w, n, a, agentName, message, threw) ==
    IF ~threw
    THEN LET systemMessage == <<"Message sent to", agentName, message>>
             w1 == StoreMessage(w, n, System, Null, systemMessage, "system")
         IN Res(BroadcastToWebSockets(w1, n,
                    [type |-> "message", from |-> System, content |-> systemMessage], a),
                "done", << >>)
    ELSE LET errorMessage == <<"Failed to send message to", agentName>>
             w1 == StoreMessage(w, n, System, Null, errorMessage, "system")
         IN Res(BroadcastToWebSockets(w1, n,
                    [type |-> "error", message |-> errorMessage], a), "done", << >>)

\* broadcastMessage(message): the echo on the local subscriptions, sent
\* after Promise.allSettled of the calls to the children
BroadcastMessageFinish(w, n, a, message) ==
    Res(BroadcastToWebSockets(w, n,
            [type |-> "message", from |-> <<PrefixBroadcast>> \o w.inst[n].currentPath,
             content |-> message], a),
        "done", << >>)

\* broadcastMessage(message) up to the await of the children's /message
BroadcastMessageStart(w, n, a, message) ==
    LET o == w.inst[n]
        w1 == StoreMessage(w, n, o.currentPath, Null, message, "broadcast")
        children == SetToSeq(o.agents)
        calls == [i \in 1 .. Len(children) |->
                    Call(ChildId(o, children[i]), <<"/", "message">>, Absent, Absent,
                         [NoBody EXCEPT !.from = o.currentPath, !.content = message,
                                        !.mtype = "broadcast"],
                         o.tenantId, ChildPath(o, children[i]))]
    IN IF o.agents = {} THEN BroadcastMessageFinish(w1, n, a, message)
       ELSE Res(w1, "awaitChildren", calls)

\* handleMessage(request): POST /message from another object
HandleMessage(w, n, a, body) ==
    IF ~body.valid THEN Res(w, "done", << >>)
    ELSE LET o == w.inst[n]
             w1 == StoreMessage(w, n, body.from,
                                IF body.mtype = "direct" THEN o.currentPath ELSE Null,
                                body.content, body.mtype)
             prefix == IF body.mtype = "direct" THEN PrefixDirect ELSE PrefixBroadcast
         IN Res(BroadcastToWebSockets(w1, n,
                    [type |-> "message", from |-> <<prefix>> \o body.from,
                     content |-> body.content], a),
                "done", << >>)

\* handleDeleteSubtree() after Promise.allSettled of the calls to the children
HandleDeleteSubtreeFinish(w, n, a) ==
    LET o == w.inst[n]
        w1 == SaveState([w EXCEPT !.inst[n].agents = {},
                                  !.inst[n].counter = 0,
                                  !.inst[n].messages = << >>], n)
        closed == [i \in DOMAIN w.socks |->
                     IF i \in o.websockets THEN [w.socks[i] EXCEPT !.open = FALSE]
                     ELSE w.socks[i]]
    IN [Res([w1 EXCEPT !.socks = closed, !.inst[n].websockets = {}], "done", << >>)
           EXCEPT !.status = 200]

\* handleDeleteSubtree() answering 404 for an agent that has no children
HandleDeleteSubtreeStartStrict(w, n, a) ==
    LET o == w.inst[n]
        children == SetToSeq(o.agents)
        calls == [i \in 1 .. Len(children) |->
                    Call(ChildId(o, children[i]), <<"/", "delete-subtree">>, Absent, Absent,
                         NoBody, o.tenantId, ChildPath(o, children[i]))]
    IN IF o.agents = {} THEN [Res(w, "done", << >>) EXCEPT !.status = 404]
       ELSE Res(w, "awaitChildren", calls)

\* handleDeleteSubtree() up to the await of the children's /delete-subtree
HandleDeleteSubtreeStart(w, n, a) ==
    LET o == w.inst[n]
        children == SetToSeq(o.agents)
        calls == [i \in 1 .. Len(children) |->
                    Call(ChildId(o, children[i]), <<"/", "delete-subtree">>, Absent, Absent,
                         NoBody, o.tenantId, ChildPath(o, children[i]))]
    IN IF o.agents = {} THEN HandleDeleteSubtreeFinish(w, n, a)
       ELSE Res(w, "awaitChildren", calls)

\* getState(): the cached value while it has not expired
GetState(w, n, a, expired) ==
    LET o == w.inst[n]
        cacheKey == StateKey(o.currentPath)
        state == [counter |-> o.counter, agents |-> o.agents]
    IN IF cacheKey \in DOMAIN o.cache /\ ~expired
       THEN [Res(w, "done", << >>) EXCEPT !.out = o.cache[cacheKey]]
       ELSE [Res([w EXCEPT !.inst[n].cache = Put(@, cacheKey, state)], "done", << >>)
                EXCEPT !.out = state]

\* handleWebSocket(): the new session is number Len(socks); tenant is the
\* tenant of the client that opened it (history)
HandleWebSocket(w, n, a) ==
    LET ws == Len(w.socks)
        o == w.inst[n]
        w1 == [w EXCEPT !.inst[n].websockets = @ \cup {ws},
                        !.socks[ws].obj = n,
                        !.socks[ws].open = TRUE]
        w2 == IF o.initializationComplete
              THEN SendToWebSocket(w1, ws, StateFrame(o), a)
              ELSE w1
        \* sendChatHistory(server)
        chat == SelectSeq(o.messages, IsChat)
        hist == [i \in 1 .. Len(chat) |->
                    [type |-> "chatResponse",
                     role |-> IF chat[i].from_agent = <<"user">> THEN "user" ELSE "assistant",
                     content |-> chat[i].content, id |-> chat[i].id, op |-> a]]
        w3 == [w2 EXCEPT !.socks[ws].frames = @ \o hist]
        w4 == BroadcastChatStats(w3, n, a)
    IN Res(w4, "done", << >>)

\* webSocketMessage, case 'ping'
Ping(w, n, a, ws) ==
    LET w1 == SendToWebSocket(w, ws, [type |-> "pong"], a)
    IN Res(SendToWebSocket(w1, ws, StateFrame(w.inst[n]), a), "done", << >>)

\* webSocketClose()
WebSocketClose(w, n, ws) ==
    [w EXCEPT !.inst[n].websockets = @ \ {ws}, !.socks[ws].open = FALSE]

\* ------------------------------------------------------------------------
\* Chat: processChatMessage.  A chat frame's content is one of ChatContents;
\* the replies are named by what they report.  The id of a chatResponse
\* frame is the stored message the frame delivers (0 when it delivers none).
\* ------------------------------------------------------------------------
\* the substrings processSimpleIntent looks for, per content of this model
Keywords(content) ==
    CASE content = "show summary" -> {"summary"}
      [] content = "need help" -> {"help"}
      [] OTHER -> {}

\* an action of a chat response; data is "undefined" when the action has none
ChatAction(type, data) == [type |-> type, data |-> data]
ChatResponse(content, actions) == [content |-> content, actions |-> actions]
NoResponse == ChatResponse("", << >>)

\* processSimpleIntent(message): null when no intent matches
ProcessSimpleIntent(o, content) ==
    LET kw == Keywords(content)
        lowStockItems == {k \in DOMAIN o.inventory :
                            o.inventory[k].currentStock <= o.inventory[k].lowStockThreshold}
    IN CASE kw \cap {"low stock", "low inventory"} # {} ->
                ChatResponse(IF lowStockItems = {} THEN "no low stock" ELSE "low stock list",
                             <<ChatAction("show_low_stock", "")>>)
         [] kw \cap {"summary", "overview", "status"} # {} ->
                ChatResponse("summary", <<ChatAction("show_summary", "")>>)
         [] kw \cap {"help", "what can you do"} # {} -> ChatResponse("help", << >>)
         [] OTHER -> NoResponse

\* one case of the switch of executeChatActions: the state after the action
\* and whether it threw.  executeCheckStock reads data.sku.
ExecuteChatAction(w, n, a, ws, action) ==
    LET o == w.inst[n]
        reply(content) == [type |-> "chatResponse", role |-> "assistant",
                           content |-> content, id |-> 0]
    IN CASE action.type = "check_stock" ->
                IF action.data = "undefined" THEN [w |-> w, threw |-> TRUE]
                ELSE [w |-> SendToWebSocket(w, ws, reply("stock level"), a), threw |-> FALSE]
         [] action.type = "show_low_stock" ->
                [w |-> SendToWebSocket(w, ws, reply("low stock items"), a), threw |-> FALSE]
         [] action.type = "show_summary" ->
                [w |-> SendToWebSocket(w, ws, reply("inventory summary"), a), threw |-> FALSE]
         [] OTHER -> [w |-> w, threw |-> FALSE]

\* executeChatActions(actions, ws)
RECURSIVE ExecuteChatActions(_, _, _, _, _)
ExecuteChatActions(w, n, a, ws, actions) ==
    IF actions = << >> THEN w
    ELSE LET w1 == UpdateChatStats(w, n, "action", a)
             r == ExecuteChatAction(w1, n, a, ws, Head(actions))
             w2 == UpdateChatStats(r.w, n, IF r.threw THEN "failure" ELSE "success", a)
         IN ExecuteChatActions(w2, n, a, ws, Tail(actions))

\* processChatMessage from the answer of processChatWithAI on
ProcessChatMessageFinish(w, n, a, ws, aiResponse) ==
    LET w1 == StoreMessage(w, n, <<"ai-assistant">>, Null, aiResponse.content, "direct")
        w2 == SendToWebSocket(w1, ws,
                 [type |-> "chatResponse", role |-> "assistant",
                  content |-> aiResponse.content, id |-> w.nextMsg], a)
    IN Res(ExecuteChatActions(w2, n, a, ws, aiResponse.actions), "done", << >>)

\* processChatMessage up to the answer of processChatWithAI: a simple intent
\* answers at once, anything else awaits agentSDK.ai.run
ProcessChatMessageStart(w, n, a, ws, content) ==
    LET w1 == UpdateChatStats(w, n, "message", a)
        w2 == StoreMessage(w1, n, <<"user">>, Null, content, "direct")
        w3 == SendToWebSocket(w2, ws,
                 [type |-> "chatResponse", role |-> "user", content |-> content,
                  id |-> w1.nextMsg], a)
        intentResponse == ProcessSimpleIntent(w3.inst[n], content)
    IN IF intentResponse # NoResponse
       THEN ProcessChatMessageFinish(w3, n, a, ws, intentResponse)
       ELSE Res(w3, "chatAI", << >>)

\* ------------------------------------------------------------------------
\* Stock updates: InventoryService.processStockUpdate inside
\* InventoryAgent.processStockUpdate
\* ------------------------------------------------------------------------
\* the switch on operation with a decrement that does not stop at zero
ApplyOperationUnclamped(operation, currentStock, quantity) ==
    CASE operation = "set" -> quantity
      [] operation = "increment" -> currentStock + quantity
      [] operation = "decrement" -> currentStock - quantity
      [] OTHER -> currentStock

\* the switch on operation
ApplyOperation(operation, currentStock, quantity) ==
    CASE operation = "set" -> quantity
      [] operation = "increment" -> currentStock + quantity
      [] operation = "decrement" -> Max(0, currentStock - quantity)
      [] OTHER -> currentStock

\* StockUpdateSchema: sku 1..50 characters, integer quantity >= 0, known operation
StockUpdateSchema(body) ==
    /\ body.valid
    /\ body.sku # ""
    /\ body.quantity >= 0
    /\ body.operation \in {"set", "increment", "decrement"}

\* InventoryService.processStockUpdate up to the await of storeProductEmbedding.
\* The INSERT INTO inventory_transactions has five placeholders and gets its
\* five values in one array; its failure is caught and logged.
ProcessStockUpdateStart(w, n, a, update) ==
    LET o == w.inst[n]
        item == IF update.sku \in DOMAIN o.inventory THEN o.inventory[update.sku]
                ELSE [currentStock |-> 0, lowStockThreshold |-> DefaultThreshold]
        item1 == [item EXCEPT !.currentStock =
                     ApplyOperation(update.operation, item.currentStock, update.quantity)]
        txn == [sku |-> update.sku, operation |-> update.operation,
                quantity |-> update.quantity, location |-> o.currentPath]
        w1 == [w EXCEPT !.inst[n].inventory = Put(@, update.sku, item1),
                        !.inst[n].held = Put(@, a, [HeldNone EXCEPT !.sku = update.sku])]
        w2 == IF ExecThrows(5, 1) THEN w1
              ELSE [w1 EXCEPT !.store[n].inventory_transactions = Append(@, txn)]
    IN [Res(w2, "embedding", << >>) EXCEPT !.out = item.currentStock]

\* propagateStockUpdate(update) if it posted the update to the agent's own
\* path instead of the parent's
PropagateStockUpdateToSelf(w, n, a, update) ==
    LET o == w.inst[n]
    IN Res(w, "awaitParent",
           << Call(o.currentPath, <<"/", "inventory", "/", "stock">>, Absent, o.currentPath,
                   [NoBody EXCEPT !.sku = update.sku, !.quantity = update.quantity,
                                  !.operation = update.operation],
                   o.tenantId, o.currentPath) >>)

\* propagateStockUpdate(update)
PropagateStockUpdate(w, n, a, update) ==
    LET o == w.inst[n]
        pathParts == SplitPath(o.currentPath)
        parentPath == IF Len(pathParts) = 1 THEN Root
                      ELSE <<"/">> \o JoinPath(DropLast(pathParts, 1))
    IN IF o.currentPath = Root \/ Len(pathParts) = 0 THEN Res(w, "done", << >>)
       ELSE Res(w, "awaitParent",
                << Call(parentPath, <<"/", "inventory", "/", "stock">>, Absent, parentPath,
                        [NoBody EXCEPT !.sku = update.sku, !.quantity = update.quantity,
                                       !.operation = update.operation],
                        o.tenantId, parentPath) >>)

\* the rest of both processStockUpdate methods once the low-stock analysis is
\* over: the stockUpdate frame, saveState, propagation to the parent
ProcessStockUpdateFinish(w, n, a, update) ==
    LET o == w.inst[n]
        w1 == BroadcastToWebSockets(w, n,
                 [type |-> "stockUpdate", sku |-> update.sku,
                  quantity |-> HeldItem(o, a, update.sku).currentStock,
                  operation |-> "set"], a)
        w2 == [w1 EXCEPT !.inst[n].held = Without(@, {a})]
    IN PropagateStockUpdate(SaveState(w2, n), n, a, update)

\* InventoryService.processLowStockAlert once aiService.analyzeInventoryTrends
\* has answered with insights (its own catch answers for a failed model
\* call): the inventory_analysis row, the reorder workflow when the insights
\* ask for it, the inventory_decisions row.  Everything is in one try/catch:
\* a throwing step ends the method.  Both INSERTs have five placeholders and
\* get their values in one array.  The rows are marked with the stock update
\* they belong to (op).
ProcessLowStockAlertFinish(w, n, a, update, insights, workflowThrows) ==
    LET o == w.inst[n]
        analysis == [sku |-> update.sku, location |-> o.currentPath,
                     shouldReorder |-> insights.shouldReorder, op |-> a]
        decision == [sku |-> update.sku, location |-> o.currentPath,
                     decision_type |-> "reorder_analysis", op |-> a]
        w1 == [w EXCEPT !.store[n].inventory_analysis = Append(@, analysis)]
        w2 == BroadcastToWebSockets(w1, n,
                 [type |-> "message", from |-> <<"AI Inventory Agent">>,
                  content |-> "Auto-reorder initiated"], a)
    IN IF ExecThrows(5, 1) THEN w
       ELSE IF insights.shouldReorder /\ workflowThrows THEN w1
       ELSE IF insights.shouldReorder
       THEN [w2 EXCEPT !.store[n].inventory_decisions = Append(@, decision)]
       ELSE [w1 EXCEPT !.store[n].inventory_decisions = Append(@, decision)]

\* InventoryService.processStockUpdate after storeProductEmbedding: the
\* lowStockAlert frame and the await of the analysis when stock is low
ProcessStockUpdateAlert(w, n, a, update) ==
    LET o == w.inst[n]
        item == HeldItem(o, a, update.sku)
    IN IF item.currentStock <= item.lowStockThreshold
       THEN Res(BroadcastToWebSockets(w, n,
                    [type |-> "lowStockAlert", sku |-> update.sku,
                     currentStock |-> item.currentStock,
                     threshold |-> item.lowStockThreshold,
                     location |-> o.currentPath], a),
                "analysis", << >>)
       ELSE ProcessStockUpdateFinish(w, n, a, update)

\* handleStockOperation(request), POST
HandleStockOperation(w, n, a, body) ==
    IF StockUpdateSchema(body)
    THEN ProcessStockUpdateStart(w, n, a,
             [sku |-> body.sku, quantity |-> body.quantity, operation |-> body.operation])
    ELSE Res(w, "done", << >>)

\* the update an activation is working on: the frame or body itself, or the
\* element of the batch that the loop of a sync has come to
UpdateOf(act) ==
    LET u == IF act.kind = "inventorySync" THEN act.arg.updates[act.step + 1] ELSE act.arg
    IN [sku |-> u.sku, quantity |-> u.quantity, operation |-> u.operation]

\* errors.slice(0, 10)
ErrorsListed == 10

\* the response of handleInventorySync: errorCount and errors grow in the
\* catch of the loop alone
SyncResult(updates, successCount, errorCount) ==
    [totalUpdates |-> Len(updates), successful |-> successCount, failed |-> errorCount,
     errors |-> Min(errorCount, ErrorsListed)]

\* the loop of handleInventorySync (viaSocket FALSE) and of
\* processInventorySync (viaSocket TRUE) from element i of the batch on, up
\* to the first await.  An element null makes processStockUpdate throw on
\* update.sku: processInventorySync lets the exception out of its loop into
\* the catch of webSocketMessage, which answers with an error frame;
\* handleInventorySync spreads the element into an object first, and does
\* so for the batches of objects that are modelled here.
SyncFrom(w, n, a, ws, updates, i, viaSocket) ==
    IF i > Len(updates)
    THEN [Res(w, "done", << >>) EXCEPT !.out = SyncResult(updates, Len(updates), 0)]
    ELSE IF updates[i].isNull /\ viaSocket
    THEN Res(SendToWebSocket(w, ws,
                 [type |-> "error", message |-> <<"Error processing message">>], a),
             "done", << >>)
    ELSE [ProcessStockUpdateStart(w, n, a, updates[i]) EXCEPT !.out = 0]

\* the loop of a sync goes on when the update it awaited is over
SyncContinue(res, n, a, act) ==
    IF act.kind = "inventorySync" /\ res.pc = "done"
    THEN [SyncFrom(res.w, n, a, act.ws, act.arg.updates, act.step + 2, act.ws # 0)
             EXCEPT !.advance = 1]
    ELSE res

\* handleStockOperation(request), GET: the cached response while it has not
\* expired, serialized when it is returned
GetInventory(w, n, a, expired) ==
    LET o == w.inst[n]
        cacheKey == InventoryKey(o.currentPath)
        entry == [skus |-> DOMAIN o.inventory, frozen |-> EmptyMap]
        response(items) == [inventory |-> items, totalItems |-> Cardinality(DOMAIN items)]
    IN IF cacheKey \in DOMAIN o.cache /\ ~expired
       THEN [Res(w, "done", << >>) EXCEPT !.out = response(CachedItems(o, o.cache[cacheKey]))]
       ELSE [Res([w EXCEPT !.inst[n].cache = Put(@, cacheKey, entry)], "done", << >>)
                EXCEPT !.out = response(o.inventory)]

\* ------------------------------------------------------------------------
\* Dispatch
\* ------------------------------------------------------------------------
\* fetch(): the switch on url.pathname, for the endpoints of this model
Dispatch(w, n, a, endpoint, method, body) ==
    CASE endpoint = <<"/", "state">> -> GetState(w, n, a, body.expired)
      [] endpoint = <<"/", "increment">> -> IncrementCounter(w, n, a)
      [] endpoint = <<"/", "message">> -> HandleMessage(w, n, a, body)
      [] endpoint = <<"/", "delete-subtree">> -> HandleDeleteSubtreeStart(w, n, a)
      [] endpoint = <<"/", "inventory", "/", "stock">> /\ method = "GET" ->
            GetInventory(w, n, a, body.expired)
      [] endpoint = <<"/", "inventory", "/", "stock">> /\ method = "POST" ->
            HandleStockOperation(w, n, a, body)
      [] endpoint = <<"/", "inventory", "/", "stock">> /\ method \notin {"GET", "POST"} ->
            [Res(w, "done", << >>) EXCEPT !.status = 405]
      [] endpoint = <<"/", "inventory", "/", "sync">> ->
            SyncFrom(w, n, a, 0, body.updates, 1, FALSE)
      [] OTHER -> Res(w, "done", << >>)

\* the handler an endpoint runs, as recorded in the activation
KindOf(endpoint, method) ==
    CASE endpoint = <<"/", "state">> -> "getState"
      [] endpoint = <<"/", "increment">> -> "increment"
      [] endpoint = <<"/", "message">> -> "message"
      [] endpoint = <<"/", "delete-subtree">> -> "deleteSubtree"
      [] endpoint = <<"/", "inventory", "/", "stock">> /\ method = "GET" -> "getInventory"
      [] endpoint = <<"/", "inventory", "/", "stock">> /\ method = "POST" -> "stockUpdate"
      [] endpoint = <<"/", "inventory", "/", "stock">> /\ method \notin {"GET", "POST"} ->
            "stockOperation"
      [] endpoint = <<"/", "inventory", "/", "sync">> -> "inventorySync"
      [] OTHER -> "notFound"

\* webSocketMessage(): the switch on data.type
WebSocketMessage(w, n, a, ws, data) ==
    CASE data.type = "increment" -> IncrementCounter(w, n, a)
      [] data.type = "createAgent" -> CreateAgent(w, n, a, data.name)
      [] data.type = "deleteAgent" -> DeleteAgentStart(w, n, a, data.name)
      [] data.type = "directMessage" -> SendDirectMessageStart(w, n, a, data.name, data.content)
      [] data.type = "broadcast" -> BroadcastMessageStart(w, n, a, data.content)
      [] data.type = "ping" -> Ping(w, n, a, ws)
      [] data.type = "chatMessage" -> ProcessChatMessageStart(w, n, a, ws, data.content)
      [] data.type = "stockUpdate" ->
            ProcessStockUpdateStart(w, n, a,
                [sku |-> data.sku, quantity |-> data.quantity, operation |-> data.operation])
      [] data.type = "inventorySync" -> SyncFrom(w, n, a, ws, data.updates, 1, TRUE)
      [] OTHER -> Res(SendToWebSocket(w, ws,
                        [type |-> "error", message |-> <<"Unknown message type">>], a),
                      "done", << >>)

\* ------------------------------------------------------------------------
\* Clients (ClientScript.tsx builds the URLs)
\* ------------------------------------------------------------------------
Modes == {"host", "path", "prefix"}
Paths == {<< >>, <<"a">>}

HostOf(mode, t) == IF mode = "host" THEN <<t, "example", "com">> ELSE <<"localhost">>

\* window.location.pathname of the page of (tenant t, path p)
PagePath(mode, t, p) ==
    LET rel == IF p = << >> THEN Empty ELSE CanonicalPath(p)
    IN CASE mode = "host" -> CanonicalPath(p)
         [] mode = "path" -> <<"/", t>> \o rel
         [] OTHER -> <<"/", "tenant", "/", t>> \o rel

\* `${baseUrl}${pathPrefix}${suffix}` with pathPrefix '' at the root
ApiUrl(mode, t, p, suffix) ==
    IF mode = "host" /\ p = << >> THEN suffix ELSE PagePath(mode, t, p) \o suffix

\* pathname.endsWith('/') ? pathname + 'ws' : pathname + '/ws'
WsUrl(mode, t, p) ==
    LET pathname == PagePath(mode, t, p)
    IN IF EndsWith(pathname, <<"/">>) THEN pathname \o <<"ws">> ELSE pathname \o <<"/", "ws">>

StockBodies ==
    {[NoBody EXCEPT !.type = "stockUpdate", !.sku = k, !.quantity = q, !.operation = op] :
        k \in Skus, q \in Quantities, op \in Operations}

MessageBodies ==
    {[NoBody EXCEPT !.from = Root, !.content = c, !.mtype = mt] :
        c \in Contents, mt \in {"direct", "broadcast"}}
    \cup {[NoBody EXCEPT !.valid = FALSE]}

\* ------------------------------------------------------------------------
\* Activations
\* ------------------------------------------------------------------------
NoReq == Call(Empty, Empty, Absent, Absent, NoBody, "", Empty)

Activation(obj, kind, origin, caller, ws, arg, req) ==
    [obj |-> obj, kind |-> kind, pc |-> "queued", origin |-> origin, caller |-> caller,
     ws |-> ws, arg |-> arg, req |-> req, accepted |-> 0, finished |-> 0, status |-> 0,
     out |-> 0, step |-> 0,
     handledAs |-> [tenantId |-> "", currentPath |-> Empty]]

Settled(a) == \A i \in 1 .. Len(acts) : acts[i].caller = a => acts[i].pc \in {"done", "failed"}
Threw(a) == \E i \in 1 .. Len(acts) : acts[i].caller = a /\ acts[i].pc = "failed"

AddTo(f, k, v) == Put(f, k, (IF k \in DOMAIN f THEN f[k] ELSE {}) \cup {v})

\* the state after activation a (record act, already in or new to acts) ran
\* a handler piece with result res at object n; started tells whether the
\* piece is the start of the handler
Commit(res, a, act, started) ==
    LET n == act.obj
        act1 == [act EXCEPT !.pc = res.pc,
                            !.accepted = IF started THEN nextSeq + 1 ELSE @,
                            !.finished = IF res.pc = "done"
                                         THEN (IF started THEN nextSeq + 1 ELSE nextSeq)
                                         ELSE @,
                            !.status = IF res.pc = "done" THEN res.status ELSE @,
                            !.out = IF \/ started /\ act.kind \in {"getState", "getInventory"}
                                       \/ act.kind = "inventorySync" /\ res.pc = "done"
                                    THEN res.out ELSE @,
                            !.step = @ + res.advance,
                            !.handledAs = IF started
                                          THEN [tenantId |-> res.w.inst[n].tenantId,
                                                currentPath |-> res.w.inst[n].currentPath]
                                          ELSE @]
        queued == [i \in 1 .. Len(res.calls) |->
                     Activation(res.calls[i].to, KindOf(res.calls[i].endpoint, "POST"), act.origin,
                                a, 0, res.calls[i].body, res.calls[i])]
        acts1 == IF a <= Len(acts) THEN [acts EXCEPT ![a] = act1] ELSE Append(acts, act1)
    IN /\ inst' = res.w.inst
       /\ store' = res.w.store
       /\ socks' = res.w.socks
       /\ nextMsg' = res.w.nextMsg
       /\ now' = now
       /\ acts' = acts1 \o queued
       /\ nextSeq' = IF started THEN nextSeq + 1 ELSE nextSeq
       /\ touched' = AddTo(touched, n, act.origin)
       /\ lastUpdate' =
            IF res.pc = "embedding"
            THEN LET update == IF act.kind = "inventorySync"
                               THEN act.arg.updates[act.step + res.advance + 1]
                               ELSE act.arg
                 IN [a |-> a, obj |-> n, sku |-> update.sku, operation |-> update.operation,
                     quantity |-> update.quantity, before |-> res.out]
            ELSE lastUpdate

\* ------------------------------------------------------------------------
\* Actions
\* ------------------------------------------------------------------------
\* an HTTP request for (tenant t, path p) sent to the URL path url, which the
\* Router forwards
Forward(mode, t, p, url, method, body) ==
    LET r == Route(HostOf(mode, t), url, method, FALSE)
        a == Len(acts) + 1
    IN /\ r.kind = "forward"
       /\ LET w1 == GetStub(World, r.id)
              w2 == PeriodicCleanup(FetchPrologue(w1, r.id, <<r.tenantId>>, r.fleetPath),
                                    r.id, body.cleanup)
              res == Dispatch(w2, r.id, a, r.endpoint, method, body)
          IN Commit(res, a,
                    Activation(r.id, KindOf(r.endpoint, method), t, 0, 0, body,
                               [NoReq EXCEPT !.method = method]), TRUE)
       /\ ops' = ops + 1
       /\ forwards' = forwards \cup
             {[tenant |-> t, path |-> CanonicalPath(p), id |-> r.id, upgrade |-> FALSE]}
       /\ served' = AddTo(served, r.id, t)

\* an HTTP request for (tenant t, path p) sent to the URL path url, through
\* the Router
HttpRequestTo(mode, t, p, url, method, body) ==
    Forward(mode, t, p, url, method, body) /\ UNCHANGED <<routed, client>>

\* a client's HTTP API request for (tenant t, path p), through the Router
HttpRequest(mode, t, p, suffix, method, body) ==
    HttpRequestTo(mode, t, p, ApiUrl(mode, t, p, suffix), method, body)

\* an upgrade request for (tenant t, path p) sent to the URL path url,
\* through the Router
WsOpenTo(mode, t, p, url) ==
    LET r == Route(HostOf(mode, t), url, "GET", TRUE)
        a == Len(acts) + 1
    IN /\ r.kind = "forward"
       /\ LET w0 == [World EXCEPT !.socks =
                        Append(@, [obj |-> r.id, open |-> FALSE, broken |-> FALSE, frames |-> << >>,
                                   tenant |-> t])]
              w1 == GetStub(w0, r.id)
              w2 == FetchPrologue(w1, r.id, <<r.tenantId>>, r.fleetPath)
              res == HandleWebSocket(w2, r.id, a)
          IN Commit(res, a, Activation(r.id, "open", t, 0, Len(socks) + 1, NoBody, NoReq), TRUE)
       /\ ops' = ops + 1
       /\ UNCHANGED <<routed, client>>
       /\ forwards' = forwards \cup
             {[tenant |-> t, path |-> CanonicalPath(p), id |-> r.id, upgrade |-> TRUE]}
       /\ served' = AddTo(served, r.id, t)

\* an HTTP request sent to the URL path url, answered by the Router or
\* forwarded, and what became of it
RouterRequest(mode, t, p, url, method) ==
    LET r == Route(HostOf(mode, t), url, method, FALSE)
        entry == [host |-> HostOf(mode, t), url |-> url, method |-> method,
                  tenant |-> t, page |-> CanonicalPath(p)]
    IN IF r.kind = "ui"
       THEN /\ routed' = routed \cup {entry @@ r}
            /\ ops' = ops + 1
            /\ UNCHANGED <<inst, store, socks, acts, nextMsg, nextSeq, forwards, served,
                           touched, lastUpdate, client, now>>
       ELSE /\ routed' = routed \cup
                  {entry @@ [kind |-> r.kind, status |-> 0, path |-> r.fleetPath,
                             tenantId |-> r.tenantId]}
            /\ Forward(mode, t, p, url, method, NoBody)
            /\ UNCHANGED client

\* a client opens a subscription on <path>/ws, through the Router
WsOpen(mode, t, p) == WsOpenTo(mode, t, p, WsUrl(mode, t, p))

\* a client sends a frame on an open subscription
WsMessage(ws, data) ==
    LET n == socks[ws].obj
        a == Len(acts) + 1
    IN /\ socks[ws].open
       /\ Commit(WebSocketMessage(GetStub(World, n), n, a, ws, data), a,
                 Activation(n, data.type, socks[ws].tenant, 0, ws, data, NoReq), TRUE)
       /\ ops' = ops + 1
       /\ UNCHANGED <<forwards, served, routed, client>>

\* a client closes its subscription
WsClose(ws) ==
    LET n == socks[ws].obj
        a == Len(acts) + 1
    IN /\ socks[ws].open
       /\ Commit(Res(WebSocketClose(GetStub(World, n), n, ws), "done", << >>), a,
                 Activation(n, "close", socks[ws].tenant, 0, ws, NoBody, NoReq), TRUE)
       /\ ops' = ops + 1
       /\ UNCHANGED <<forwards, served, routed, client>>

\* stub.fetch(request) of an agent-to-agent call arrives at its object
Deliver(a) ==
    LET act == acts[a]
        n == act.obj
        c == act.req
    IN /\ act.pc = "queued"
       /\ LET w1 == GetStub(World, n)
              w2 == FetchPrologue(w1, n, c.tenantHdr, c.pathHdr)
          IN Commit(Dispatch(w2, n, a, c.endpoint, c.method, c.body), a, act, TRUE)
       /\ UNCHANGED <<ops, forwards, served, routed, client>>

\* stub.fetch(request) of an agent-to-agent call throws
RpcFail(a) ==
    /\ acts[a].pc = "queued"
    /\ acts' = [acts EXCEPT ![a].pc = "failed"]
    /\ UNCHANGED <<inst, store, socks, nextMsg, nextSeq, ops, forwards, served, touched,
                   lastUpdate, routed, client, now>>

\* the awaited peer calls of activation a have settled: the handler goes on
Resume(a) ==
    LET act == acts[a]
        n == act.obj
        res == CASE act.kind = "deleteAgent" ->
                        DeleteAgentFinish(World, n, a, act.arg.name, Threw(a))
                 [] act.kind = "directMessage" ->
                        SendDirectMessageFinish(World, n, a, act.arg.name, act.arg.content,
                                                Threw(a))
                 [] act.kind = "broadcast" ->
                        BroadcastMessageFinish(World, n, a, act.arg.content)
                 [] act.kind = "deleteSubtree" -> HandleDeleteSubtreeFinish(World, n, a)
                 [] OTHER -> Res(World, "done", << >>)
    IN /\ act.pc \in {"awaitChild", "awaitChildren", "awaitParent"}
       /\ Settled(a)
       /\ Commit(SyncContinue(res, n, a, act), a, act, FALSE)
       /\ UNCHANGED <<ops, forwards, served, routed, client>>

\* the awaited storeProductEmbedding of a stock update has answered
ExternalReturn(a) ==
    LET act == acts[a]
        n == act.obj
        update == UpdateOf(act)
    IN /\ act.pc = "embedding"
       /\ Commit(SyncContinue(ProcessStockUpdateAlert(World, n, a, update), n, a, act),
                 a, act, FALSE)
       /\ UNCHANGED <<ops, forwards, served, routed, client>>

\* what the low-stock analysis can come to
Insights == {[shouldReorder |-> b] : b \in BOOLEAN}

\* the awaited analyzeInventoryTrends of a low stock has answered; the rest
\* of processLowStockAlert and of the stock update follows
AnalysisReturn(a, insights, workflowThrows) ==
    LET act == acts[a]
        n == act.obj
        update == UpdateOf(act)
        w1 == ProcessLowStockAlertFinish(World, n, a, update, insights, workflowThrows)
    IN /\ act.pc = "analysis"
       /\ Commit(SyncContinue(ProcessStockUpdateFinish(w1, n, a, update), n, a, act),
                 a, act, FALSE)
       /\ UNCHANGED <<ops, forwards, served, routed, client>>

\* what agentSDK.ai.run can come to for a chat message: plain text, JSON with
\* an action list, or an exception (the fallback answer of processChatWithAI)
AiResponses ==
    {ChatResponse("answer", << >>),
     ChatResponse("answer", <<ChatAction("check_stock", "undefined")>>),
     ChatResponse("answer", <<ChatAction("show_summary", "")>>),
     ChatResponse("fallback", << >>)}

\* the awaited agentSDK.ai.run of a chat message has answered
AiReturn(a, r) ==
    LET act == acts[a]
    IN /\ act.pc = "chatAI"
       /\ Commit(ProcessChatMessageFinish(World, act.obj, a, act.ws, r), a, act, FALSE)
       /\ UNCHANGED <<ops, forwards, served, routed, client>>

\* ------------------------------------------------------------------------
\* The page script (ClientScript.tsx): the socket of the page and its
\* reconnect timer.  Times are in milliseconds.
\* ------------------------------------------------------------------------
maxReconnectDelay == 30000
InitialReconnectDelay == 1000

\* the keep-alive check runs every 5 s, pings after 10 s without activity
\* and gives the connection up after 2 minutes without activity
KeepAliveEvery == 5000
PingAfter == 10000
IdleMax == 120000

\* the script's variables when the page has loaded; ws is null or the
\* readyState of the socket it holds; reconnectTimeout is the delay the
\* pending timer was armed with, 0 when none is pending; attempts counts the
\* reconnect attempts made (history); clock is Date.now() counted from the
\* page load; keepAliveInterval tells whether the keep-alive check is armed;
\* lastReceived is the time the socket opened or last delivered a frame
\* (history)
NewClient ==
    [ws |-> "null", reconnectDelay |-> InitialReconnectDelay, reconnectTimeout |-> 0,
     webSocketInitialized |-> FALSE, attempts |-> 0,
     clock |-> 0, lastActivity |-> 0, keepAliveInterval |-> FALSE, lastReceived |-> 0]

\* the server variables, which the page script does not touch
Server == <<inst, store, socks, acts, nextMsg, nextSeq, forwards, served, touched,
            lastUpdate, routed, now>>

\* scheduleReconnect(): the pending timer is cleared, a new one is armed
\* with the current delay
ScheduleReconnect(c) == [c EXCEPT !.reconnectTimeout = c.reconnectDelay]

\* connectWebSocket(); throws tells whether new WebSocket(wsUrl) throws
ConnectWebSocket(c, throws) ==
    IF c.ws \in {"connecting", "open"} THEN c
    ELSE IF throws THEN ScheduleReconnect([c EXCEPT !.ws = "null"])
    ELSE [c EXCEPT !.ws = "connecting"]

\* the delay after a reconnect attempt, without the cap
NextDelayUncapped(reconnectDelay) == reconnectDelay * 2

\* Math.min(reconnectDelay * 2, maxReconnectDelay)
NextDelay(reconnectDelay) ==
    IF reconnectDelay * 2 <= maxReconnectDelay THEN reconnectDelay * 2 ELSE maxReconnectDelay

\* the page initializes its socket once
ClientLoad ==
    /\ ~client.webSocketInitialized
    /\ client' = [ConnectWebSocket(client, FALSE) EXCEPT !.webSocketInitialized = TRUE]
    /\ UNCHANGED <<Server, ops>>

\* ws.onopen
OnOpen ==
    /\ client.ws = "connecting"
    /\ client' = [client EXCEPT !.ws = "open", !.reconnectDelay = InitialReconnectDelay,
                                !.lastActivity = client.clock,
                                !.keepAliveInterval = TRUE,
                                !.lastReceived = client.clock]
    /\ UNCHANGED <<Server, ops>>

\* ws.onclose: the connection attempt failed, or the open connection dropped
\* or was closed by the keep-alive check
OnClose ==
    /\ client.ws \in {"connecting", "open", "closing"}
    /\ client' = ScheduleReconnect([client EXCEPT !.ws = "closed",
                                                  !.keepAliveInterval = FALSE])
    /\ ops' = ops + 1
    /\ UNCHANGED Server

\* the reconnect timer fires: connectWebSocket(), then the delay is doubled
TimerFires(throws) ==
    /\ client.reconnectTimeout # 0
    /\ LET c1 == ConnectWebSocket([client EXCEPT !.reconnectTimeout = 0], throws)
       IN client' = [c1 EXCEPT !.reconnectDelay = NextDelay(c1.reconnectDelay),
                               !.attempts = @ + 1]
    /\ ops' = IF throws THEN ops + 1 ELSE ops
    /\ UNCHANGED Server

\* ws.onmessage: a frame arrives on the open socket
OnMessage ==
    /\ client.ws = "open"
    /\ client' = [client EXCEPT !.lastActivity = client.clock,
                                !.lastReceived = client.clock]
    /\ ops' = ops + 1
    /\ UNCHANGED Server

\* updateUserActivity(): a click, key press, mouse move, scroll or touch
UpdateUserActivity ==
    /\ client' = [client EXCEPT !.lastActivity = client.clock]
    /\ ops' = ops + 1
    /\ UNCHANGED Server

\* the callback of startKeepAlive() on the script's variables c at time t
KeepAliveCheck(c, t) ==
    LET timeSinceLastActivity == t - c.lastActivity
        pinged == IF timeSinceLastActivity > PingAfter /\ c.ws = "open"
                  THEN [c EXCEPT !.lastActivity = t] ELSE c
    IN  IF timeSinceLastActivity > IdleMax /\ c.ws # "null"
        THEN [pinged EXCEPT !.ws = IF c.ws = "closed" THEN "closed" ELSE "closing"]
        ELSE pinged

\* the keep-alive interval fires d milliseconds after its previous run
KeepAlive(d) ==
    /\ client.keepAliveInterval
    /\ client' = KeepAliveCheck([client EXCEPT !.clock = @ + d], client.clock + d)
    /\ UNCHANGED <<Server, ops>>

\* the connection of session ws breaks while the socket still reports
\* itself open: send() throws from now on
SocketBreaks(ws) ==
    /\ socks[ws].open
    /\ ~socks[ws].broken
    /\ socks' = [socks EXCEPT ![ws].broken = TRUE]
    /\ ops' = ops + 1
    /\ UNCHANGED <<inst, store, acts, nextMsg, nextSeq, forwards, served, touched,
                   lastUpdate, routed, client, now>>

\* the runtime discards the in-memory instance of object n, which has no
\* handler in progress, and closes its sessions; the tables stay.  The next
\* request constructs a new instance (GetStub).
Restart(n) ==
    /\ n \in DOMAIN inst
    /\ \A a \in 1 .. Len(acts) :
          acts[a].obj = n => acts[a].pc \in {"queued", "done", "failed"}
    /\ inst' = Without(inst, {n})
    /\ socks' = [i \in DOMAIN socks |->
                   IF socks[i].obj = n THEN [socks[i] EXCEPT !.open = FALSE] ELSE socks[i]]
    /\ ops' = ops + 1
    /\ UNCHANGED <<store, acts, nextMsg, nextSeq, forwards, served, touched, lastUpdate,
                   routed, client, now>>

\* the runtime lets object n, which has no handler in progress, hibernate:
\* the in-memory instance is discarded while the sockets it accepted with
\* acceptWebSocket stay connected.  The next event constructs a new instance.
Hibernate(n) ==
    /\ n \in DOMAIN inst
    /\ \A a \in 1 .. Len(acts) :
          acts[a].obj = n => acts[a].pc \in {"queued", "done", "failed"}
    /\ inst' = Without(inst, {n})
    /\ ops' = ops + 1
    /\ UNCHANGED <<store, socks, acts, nextMsg, nextSeq, forwards, served, touched,
                   lastUpdate, routed, client, now>>

\* d days pass
Tick(d) ==
    /\ now' = now + d
    /\ ops' = ops + 1
    /\ UNCHANGED <<inst, store, socks, acts, nextMsg, nextSeq, forwards, served, touched,
                   lastUpdate, routed, client>>

Init ==
    /\ inst = EmptyMap
    /\ store = EmptyMap
    /\ socks = << >>
    /\ acts = << >>
    /\ nextMsg = 1
    /\ nextSeq = 0
    /\ ops = 0
    /\ forwards = {}
    /\ served = EmptyMap
    /\ touched = EmptyMap
    /\ lastUpdate = [a |-> 0, obj |-> Empty, sku |-> "", operation |-> "", quantity |-> 0,
                     before |-> 0]
    /\ now = 0
    /\ routed = {}
    /\ client = NewClient

\* the stock updates of the general traffic: one operation, every quantity
SetBodies == {b \in StockBodies : b.operation = "set"}

HttpCalls ==
    {[suffix |-> <<"/", "state">>, method |-> "GET", body |-> [NoBody EXCEPT !.expired = e]] :
        e \in BOOLEAN}
    \cup {[suffix |-> <<"/", "increment">>, method |-> "GET", body |-> NoBody]}
    \cup {[suffix |-> <<"/", "delete-subtree">>, method |-> "POST", body |-> NoBody]}
    \cup {[suffix |-> <<"/", "message">>, method |-> "POST", body |-> b] : b \in MessageBodies}
    \cup {[suffix |-> <<"/", "inventory", "/", "stock">>, method |-> "POST", body |-> b] :
            b \in SetBodies}

Frames ==
    {[NoBody EXCEPT !.type = ty] : ty \in {"increment", "ping"}}
    \cup {[NoBody EXCEPT !.type = ty, !.name = nm] :
            ty \in {"createAgent", "deleteAgent"}, nm \in Names}
    \cup {[NoBody EXCEPT !.type = "directMessage", !.name = nm, !.content = c] :
            nm \in Names, c \in Contents}
    \cup {[NoBody EXCEPT !.type = "broadcast", !.content = c] : c \in Contents}
    \cup SetBodies

Next ==
    \/ \E mode \in Modes, t \in Tenants, p \in Paths, c \in HttpCalls :
          ops < MaxOps /\ HttpRequest(mode, t, p, c.suffix, c.method, c.body)
    \/ \E mode \in Modes, t \in Tenants, p \in Paths :
          ops < MaxOps /\ Len(socks) < MaxSessions /\ WsOpen(mode, t, p)
    \/ \E ws \in 1 .. Len(socks), data \in Frames : ops < MaxOps /\ WsMessage(ws, data)
    \/ \E ws \in 1 .. Len(socks) : ops < MaxOps /\ WsClose(ws)
    \/ \E a \in 1 .. Len(acts) : Deliver(a)
    \/ \E a \in 1 .. Len(acts) : RpcFail(a)
    \/ \E a \in 1 .. Len(acts) : Resume(a)
    \/ \E a \in 1 .. Len(acts) : ExternalReturn(a)
    \/ \E a \in 1 .. Len(acts), i \in Insights, t \in BOOLEAN : AnalysisReturn(a, i, t)

Spec == Init /\ [][Next]_vars

\* ------------------------------------------------------------------------
\* Stock traffic of one location: tenant acme at its root, by POST
\* /inventory/stock and by frames; increment frames run between the pieces
\* of a stock update
\* ------------------------------------------------------------------------
StockSuffix == <<"/", "inventory", "/", "stock">>

StockFrames == StockBodies \cup {[NoBody EXCEPT !.type = "increment"]}

NextStock ==
    \/ \E b \in StockBodies :
          ops < MaxStockOps /\ HttpRequest("path", "acme", << >>, StockSuffix, "POST", b)
    \/ ops < MaxStockOps /\ Len(socks) < MaxSessions /\ WsOpen("path", "acme", << >>)
    \/ \E ws \in 1 .. Len(socks), data \in StockFrames :
          ops < MaxStockOps /\ WsMessage(ws, data)
    \/ \E a \in 1 .. Len(acts) : ExternalReturn(a)
    \/ \E a \in 1 .. Len(acts), i \in Insights, t \in BOOLEAN : AnalysisReturn(a, i, t)

SpecStock == Init /\ [][NextStock]_vars

\* ------------------------------------------------------------------------
\* Hierarchy traffic of one tenant: sessions at /a and /a/a, which create and
\* delete children, broadcast and send direct messages
\* ------------------------------------------------------------------------
FleetPaths == {<<"a">>, <<"a", "a">>}

FleetFrames ==
    {[NoBody EXCEPT !.type = ty, !.name = nm] : ty \in {"createAgent", "deleteAgent"}, nm \in Names}
    \cup {[NoBody EXCEPT !.type = "broadcast", !.content = c] : c \in Contents}
    \cup {[NoBody EXCEPT !.type = "increment"]}

NextFleet ==
    \/ \E p \in FleetPaths :
          ops < MaxFleetOps /\ Len(socks) < MaxSessions /\ WsOpen("path", "acme", p)
    \/ \E ws \in 1 .. Len(socks), data \in FleetFrames :
          ops < MaxFleetOps /\ WsMessage(ws, data)
    \/ \E a \in 1 .. Len(acts) : Deliver(a)
    \/ \E a \in 1 .. Len(acts) : RpcFail(a)
    \/ \E a \in 1 .. Len(acts) : Resume(a)

SpecFleet == Init /\ [][NextFleet]_vars

\* ------------------------------------------------------------------------
\* Two tenants at the same path /a: stock updates that propagate to the
\* parent, and sessions that create, delete and broadcast to a child
\* ------------------------------------------------------------------------
TenantBodies ==
    {[NoBody EXCEPT !.type = "stockUpdate", !.sku = k, !.quantity = MaxQuantity,
                    !.operation = "set"] : k \in Skus}

NextTenants ==
    \/ \E t \in Tenants, b \in TenantBodies :
          ops < MaxTenantOps /\ HttpRequest("path", t, <<"a">>, StockSuffix, "POST", b)
    \/ \E t \in Tenants :
          ops < MaxTenantOps /\ Len(socks) < MaxSessions /\ WsOpen("path", t, <<"a">>)
    \/ \E ws \in 1 .. Len(socks), data \in FleetFrames :
          ops < MaxTenantOps /\ WsMessage(ws, data)
    \/ \E a \in 1 .. Len(acts) : Deliver(a)
    \/ \E a \in 1 .. Len(acts) : RpcFail(a)
    \/ \E a \in 1 .. Len(acts) : Resume(a)
    \/ \E a \in 1 .. Len(acts) : ExternalReturn(a)
    \/ \E a \in 1 .. Len(acts), i \in Insights, t \in BOOLEAN : AnalysisReturn(a, i, t)

SpecTenants == Init /\ [][NextTenants]_vars

\* ------------------------------------------------------------------------
\* A three-level subtree of one tenant: one client at each of the root, /a
\* and /a/a opens its session once and creates the child a once; the client
\* at the root deletes it once
\* ------------------------------------------------------------------------
CascadePaths == {<< >>, <<"a">>, <<"a", "a">>}

CascadeFrames ==
    {[NoBody EXCEPT !.type = ty, !.name = nm] : ty \in {"createAgent", "deleteAgent"}, nm \in Names}

NextCascade ==
    \/ \E p \in CascadePaths :
          /\ \A f \in forwards : f.path # CanonicalPath(p)
          /\ WsOpen("path", "acme", p)
    \/ \E ws \in 1 .. Len(socks), data \in CascadeFrames :
          /\ data.type = "deleteAgent" => inst[socks[ws].obj].currentPath = Root
          /\ \A b \in 1 .. Len(acts) : ~(acts[b].ws = ws /\ acts[b].kind = data.type)
          /\ WsMessage(ws, data)
    \/ \E a \in 1 .. Len(acts) : Deliver(a)
    \/ \E a \in 1 .. Len(acts) : RpcFail(a)
    \/ \E a \in 1 .. Len(acts) : Resume(a)

SpecCascade == Init /\ [][NextCascade]_vars

\* ------------------------------------------------------------------------
\* Chat traffic of one location: sessions of tenant acme at its root send
\* chat messages; the instance may be restarted between operations
\* ------------------------------------------------------------------------
ChatContents == {"show summary", "hello"}

ChatFrames == {[NoBody EXCEPT !.type = "chatMessage", !.content = c] : c \in ChatContents}

NextChat ==
    \/ ops < MaxChatOps /\ Len(socks) < MaxSessions /\ WsOpen("path", "acme", << >>)
    \/ \E ws \in 1 .. Len(socks), data \in ChatFrames :
          ops < MaxChatOps /\ WsMessage(ws, data)
    \/ \E a \in 1 .. Len(acts), r \in AiResponses : AiReturn(a, r)
    \/ \E n \in DOMAIN inst : ops < MaxChatOps /\ Restart(n)

SpecChat == Init /\ [][NextChat]_vars

\* ------------------------------------------------------------------------
\* Mutations and restarts of one location: sessions of tenant acme at its
\* root increment the counter, update a stock, create and delete a child;
\* the instances may be restarted between operations
\* ------------------------------------------------------------------------
PersistFrames ==
    {[NoBody EXCEPT !.type = "stockUpdate", !.sku = k, !.quantity = MaxQuantity,
                    !.operation = op] : k \in Skus, op \in {"set", "decrement"}}
    \cup CascadeFrames
    \cup {[NoBody EXCEPT !.type = "increment"]}

NextPersist ==
    \/ ops < MaxPersistOps /\ Len(socks) < MaxSessions /\ WsOpen("path", "acme", << >>)
    \/ \E ws \in 1 .. Len(socks), data \in PersistFrames :
          ops < MaxPersistOps /\ WsMessage(ws, data)
    \/ \E a \in 1 .. Len(acts) : Deliver(a)
    \/ \E a \in 1 .. Len(acts) : RpcFail(a)
    \/ \E a \in 1 .. Len(acts) : Resume(a)
    \/ \E a \in 1 .. Len(acts) : ExternalReturn(a)
    \/ \E a \in 1 .. Len(acts), i \in Insights, t \in BOOLEAN : AnalysisReturn(a, i, t)
    \/ \E n \in DOMAIN inst : ops < MaxPersistOps /\ Restart(n)

SpecPersist == Init /\ [][NextPersist]_vars

\* ------------------------------------------------------------------------
\* Children of one agent: a session of tenant acme at /a creates and deletes
\* children of two names
\* ------------------------------------------------------------------------
CycleNames == {"a", "b"}

CycleFrames ==
    {[NoBody EXCEPT !.type = ty, !.name = nm] :
        ty \in {"createAgent", "deleteAgent"}, nm \in CycleNames}

NextCycle ==
    \/ ops < MaxCycleOps /\ Len(socks) < 1 /\ WsOpen("path", "acme", <<"a">>)
    \/ \E ws \in 1 .. Len(socks), data \in CycleFrames :
          ops < MaxCycleOps /\ WsMessage(ws, data)
    \/ \E a \in 1 .. Len(acts) : Deliver(a)
    \/ \E a \in 1 .. Len(acts) : RpcFail(a)
    \/ \E a \in 1 .. Len(acts) : Resume(a)

SpecCycle == Init /\ [][NextCycle]_vars

\* ------------------------------------------------------------------------
\* Message retention at one location: a session of tenant acme at /a
\* broadcasts and chats, days pass, and HTTP requests to the same agent draw
\* the periodic cleanup
\* ------------------------------------------------------------------------
PurgeFrames ==
    {[NoBody EXCEPT !.type = "broadcast", !.content = c] : c \in Contents}
    \cup {[NoBody EXCEPT !.type = "chatMessage", !.content = "show summary"]}

\* a day, or what is left of the run up to the retention period and past it
TickDays == {1, RetentionDays}

NextPurge ==
    \/ ops < MaxPurgeOps /\ Len(socks) < 1 /\ WsOpen("path", "acme", <<"a">>)
    \/ \E ws \in 1 .. Len(socks), data \in PurgeFrames :
          ops < MaxPurgeOps /\ WsMessage(ws, data)
    \/ \E d \in TickDays : ops < MaxPurgeOps /\ now + d <= MaxDays /\ Tick(d)
    \/ ops < MaxPurgeOps
          /\ HttpRequest("path", "acme", <<"a">>, <<"/", "state">>, "GET",
                         [NoBody EXCEPT !.cleanup = TRUE])

SpecPurge == Init /\ [][NextPurge]_vars

\* ------------------------------------------------------------------------
\* Subtree deletion at one location: a session of tenant acme at /a creates
\* a child and increments the counter, and POST /a/delete-subtree requests
\* delete the subtree of the agent
\* ------------------------------------------------------------------------
SubtreeFrames ==
    {[NoBody EXCEPT !.type = "createAgent", !.name = nm] : nm \in Names}
    \cup {[NoBody EXCEPT !.type = "increment"]}

NextSubtree ==
    \/ ops < MaxSubtreeOps /\ Len(socks) < MaxSessions /\ WsOpen("path", "acme", <<"a">>)
    \/ \E ws \in 1 .. Len(socks), data \in SubtreeFrames :
          ops < MaxSubtreeOps /\ WsMessage(ws, data)
    \/ ops < MaxSubtreeOps
          /\ HttpRequest("path", "acme", <<"a">>, <<"/", "delete-subtree">>, "POST", NoBody)
    \/ \E a \in 1 .. Len(acts) : Deliver(a)
    \/ \E a \in 1 .. Len(acts) : RpcFail(a)
    \/ \E a \in 1 .. Len(acts) : Resume(a)

SpecSubtree == Init /\ [][NextSubtree]_vars

\* ------------------------------------------------------------------------
\* Reads and writes of one agent: GET /state and GET /inventory/stock
\* requests of tenant acme at its root, within and past the lifetime of the
\* cached response, between GET /increment requests, stock updates and the
\* createAgent frames of a session
\* ------------------------------------------------------------------------
ReadBodies == {[NoBody EXCEPT !.expired = e] : e \in BOOLEAN}

ReadUpdates == {b \in StockBodies : b.operation = "set" /\ b.quantity >= 0}

ReadFrames == {[NoBody EXCEPT !.type = "createAgent", !.name = nm] : nm \in Names}

\* the HTTP requests of the client: the two reads, GET /increment, and the
\* stock updates
ReadRequests ==
    {[suffix |-> sfx, method |-> "GET", body |-> b] :
        sfx \in {<<"/", "state">>, StockSuffix}, b \in ReadBodies}
    \cup {[suffix |-> <<"/", "increment">>, method |-> "GET", body |-> NoBody]}
    \cup {[suffix |-> StockSuffix, method |-> "POST", body |-> b] : b \in ReadUpdates}

NextRead ==
    \/ \E r \in ReadRequests :
          ops < MaxReadOps /\ HttpRequest("path", "acme", << >>, r.suffix, r.method, r.body)
    \/ ops < MaxReadOps /\ Len(socks) < 1 /\ WsOpen("path", "acme", << >>)
    \/ \E ws \in 1 .. Len(socks), data \in ReadFrames : ops < MaxReadOps /\ WsMessage(ws, data)
    \/ \E a \in 1 .. Len(acts) : ExternalReturn(a)
    \/ \E a \in 1 .. Len(acts), i \in Insights, t \in BOOLEAN : AnalysisReturn(a, i, t)

SpecRead == Init /\ [][NextRead]_vars

\* ------------------------------------------------------------------------
\* Agents reached under two paths: tenant acme updates a stock at /a/a, which
\* propagates to the parents, and a session at its root creates the child a
\* and broadcasts to it, one operation after the other
\* ------------------------------------------------------------------------
OwnerBodies ==
    {[NoBody EXCEPT !.type = "stockUpdate", !.sku = k, !.quantity = 11, !.operation = "set"] :
        k \in Skus}

OwnerFrames ==
    {[NoBody EXCEPT !.type = "createAgent", !.name = "a"]}
    \cup {[NoBody EXCEPT !.type = "broadcast", !.content = c] : c \in Contents}

\* the client waits for the agents to come to rest before its next operation
AtRest == \A a \in 1 .. Len(acts) : acts[a].pc \in {"done", "failed"}

NextOwner ==
    \/ \E b \in OwnerBodies :
          /\ ops < MaxOwnerOps /\ AtRest
          /\ HttpRequest("path", "acme", <<"a", "a">>, StockSuffix, "POST", b)
    \/ ops < MaxOwnerOps /\ AtRest /\ Len(socks) < 1 /\ WsOpen("path", "acme", << >>)
    \/ \E ws \in 1 .. Len(socks), data \in OwnerFrames :
          ops < MaxOwnerOps /\ AtRest /\ WsMessage(ws, data)
    \/ \E a \in 1 .. Len(acts) : Deliver(a)
    \/ \E a \in 1 .. Len(acts) : Resume(a)
    \/ \E a \in 1 .. Len(acts) : ExternalReturn(a)

SpecOwner == Init /\ [][NextOwner]_vars

\* ------------------------------------------------------------------------
\* Child names at one location: a session of tenant acme at /a asks for
\* children of all the names of AllNames
\* ------------------------------------------------------------------------
NameFrames == {[NoBody EXCEPT !.type = "createAgent", !.name = nm] : nm \in AllNames}

NextNames ==
    \/ ops < MaxNameOps /\ Len(socks) < 1 /\ WsOpen("path", "acme", <<"a">>)
    \/ \E ws \in 1 .. Len(socks), data \in NameFrames : ops < MaxNameOps /\ WsMessage(ws, data)

SpecNames == Init /\ [][NextNames]_vars

\* ------------------------------------------------------------------------
\* Addresses with and without a trailing slash: POST requests and upgrades
\* of tenant acme sent to the address of a path itself, in the three ways of
\* naming the tenant
\* ------------------------------------------------------------------------
CanonPaths == {<< >>, <<"a">>, <<"a", "b">>}

\* the URL path of (tenant t, path p), with a slash at its end when asked
Address(mode, t, p, slash) ==
    LET pathname == PagePath(mode, t, p)
    IN IF slash /\ ~EndsWith(pathname, <<"/">>) THEN pathname \o <<"/">> ELSE pathname

NextCanon ==
    \/ \E mode \in Modes, p \in CanonPaths, slash \in BOOLEAN :
          /\ ops < MaxCanonOps
          /\ HttpRequestTo(mode, "acme", p, Address(mode, "acme", p, slash), "POST", NoBody)
    \/ \E mode \in Modes, p \in CanonPaths, slash \in BOOLEAN :
          /\ ops < MaxCanonOps
          /\ WsOpenTo(mode, "acme", p, Address(mode, "acme", p, slash))

SpecCanon == Init /\ [][NextCanon]_vars

\* ------------------------------------------------------------------------
\* The Router's classification: GET and POST requests of tenant acme for the
\* root and for /a/b, sent to the page itself, to some of the API endpoints
\* and to a path under /api/
\* ------------------------------------------------------------------------
RouterPaths == {<< >>, <<"a", "b">>}

RouterSuffixes ==
    {Empty, <<"/", "state">>, <<"/", "message">>, <<"/", "debug", "/", "db">>,
     <<"/", "inventory", "/", "stock">>, <<"/", "api", "/", "x">>}

\* the URL path of a request for (tenant t, path p) with the suffix
RouterUrl(mode, t, p, suffix) ==
    IF suffix = Empty THEN PagePath(mode, t, p) ELSE ApiUrl(mode, t, p, suffix)

NextRouter ==
    \E mode \in Modes, p \in RouterPaths, suffix \in RouterSuffixes, method \in {"GET", "POST"} :
        /\ ops < MaxRouterOps
        /\ RouterRequest(mode, "acme", p, RouterUrl(mode, "acme", p, suffix), method)

SpecRouter == Init /\ [][NextRouter]_vars

\* ------------------------------------------------------------------------
\* One page: its connection opens, fails and drops, and the reconnect timer
\* fires
\* ------------------------------------------------------------------------
NextClient ==
    \/ ClientLoad
    \/ OnOpen
    \/ ops < MaxClientOps /\ OnClose
    \/ TimerFires(FALSE)
    \/ ops < MaxClientOps /\ TimerFires(TRUE)

SpecClient == Init /\ [][NextClient]_vars

\* a timer that is armed fires
SpecClientLive == SpecClient /\ WF_vars(TimerFires(FALSE))

\* ------------------------------------------------------------------------
\* A long chat history: the agent of tenant acme at /a has been evicted and
\* its table holds about as many chat rows as the ring takes; sessions open,
\* send chat messages, and the instance may be restarted
\* ------------------------------------------------------------------------
RingAgent == TenantFleetId("acme", <<"/", "a">>)

\* the numbers of chat rows the table starts with
RingStart == {MsgMemRing - 2, MsgMemRing, MsgMemRing + 2}

\* the stored_messages rows of k chat messages, a user message and its
\* answer in turn, as storeMessage writes them
ChatRows(k) ==
    [i \in 1 .. k |->
        [id |-> i, timestamp |-> 0,
         from_agent |-> IF i % 2 = 1 THEN <<"user">> ELSE <<"ai-assistant">>,
         to_agent |-> Null, content |-> IF i % 2 = 1 THEN "hello" ELSE "answer",
         message_type |-> "direct", location |-> <<"/", "a">>]]

InitRing ==
    /\ inst = EmptyMap
    /\ \E k \in RingStart :
          /\ store = Put(EmptyMap, RingAgent, [NewStore EXCEPT !.stored_messages = ChatRows(k)])
          /\ nextMsg = k + 1
    /\ socks = << >>
    /\ acts = << >>
    /\ nextSeq = 0
    /\ ops = 0
    /\ forwards = {}
    /\ served = EmptyMap
    /\ touched = EmptyMap
    /\ lastUpdate = [a |-> 0, obj |-> Empty, sku |-> "", operation |-> "", quantity |-> 0,
                     before |-> 0]
    /\ now = 0
    /\ routed = {}
    /\ client = NewClient

NextRing ==
    \/ ops < MaxRingOps /\ Len(socks) < MaxSessions /\ WsOpen("path", "acme", <<"a">>)
    \/ \E ws \in 1 .. Len(socks), data \in ChatFrames :
          ops < MaxRingOps /\ WsMessage(ws, data)
    \/ \E a \in 1 .. Len(acts), r \in AiResponses : AiReturn(a, r)
    \/ \E n \in DOMAIN inst : ops < MaxRingOps /\ Restart(n)

SpecRing == InitRing /\ [][NextRing]_vars

\* ------------------------------------------------------------------------
\* Chat across day boundaries: sessions of tenant acme at /a send chat
\* messages, and the clock moves on by a day between operations
\* ------------------------------------------------------------------------
NextDay ==
    \/ ops < MaxDayOps /\ Len(socks) < 1 /\ WsOpen("path", "acme", <<"a">>)
    \/ \E ws \in 1 .. Len(socks), data \in ChatFrames :
          ops < MaxDayOps /\ WsMessage(ws, data)
    \/ \E a \in 1 .. Len(acts), r \in AiResponses : AiReturn(a, r)
    \/ ops < MaxDayOps /\ now + 1 <= MaxDays /\ Tick(1)

SpecDay == Init /\ [][NextDay]_vars

\* ------------------------------------------------------------------------
\* The traffic of the two tenants at /a with the scheduling the code gives:
\* a handler goes on once the calls it awaits have settled.  Nothing bounds
\* the time a peer or an external service takes to answer.
\* ------------------------------------------------------------------------
SpecTenantsLive == SpecTenants /\ WF_vars(\E a \in 1 .. Len(acts) : Resume(a))

\* ------------------------------------------------------------------------
\* The page script with its keep-alive check: the socket opens, frames and
\* user events arrive, the check runs on time or late (a throttled timer),
\* the socket closes and the reconnect timer fires.
\* ------------------------------------------------------------------------
\* the delays between two runs of the check: on time, or later than IdleMax
IntervalDelays == {KeepAliveEvery, IdleMax + KeepAliveEvery}

NextIdle ==
    \/ ClientLoad
    \/ OnOpen
    \/ ops < MaxIdleOps /\ OnMessage
    \/ ops < MaxIdleOps /\ client.ws = "open" /\ UpdateUserActivity
    \/ \E d \in IntervalDelays : client.clock + d <= MaxClock /\ KeepAlive(d)
    \/ ops < MaxIdleOps /\ OnClose
    \/ TimerFires(FALSE)

SpecIdle == Init /\ [][NextIdle]_vars

\* ------------------------------------------------------------------------
\* Propagation of stock updates: clients of one tenant post updates of one
\* item at the agents of depth 0 to 3, one update at a time; a parent call
\* may fail.
\* ------------------------------------------------------------------------
PropPaths == {<< >>, <<"a">>, <<"a", "a">>, <<"a", "a", "a">>}

PropBodies ==
    {[NoBody EXCEPT !.type = "stockUpdate", !.sku = "s1", !.quantity = q,
                    !.operation = "set"] : q \in {DefaultThreshold + 1}}

NextProp ==
    \/ \E p \in PropPaths, b \in PropBodies :
          /\ ops < MaxPropOps /\ AtRest
          /\ HttpRequest("path", "acme", p, StockSuffix, "POST", b)
    \/ \E a \in 1 .. Len(acts) : Deliver(a)
    \/ \E a \in 1 .. Len(acts) : RpcFail(a)
    \/ \E a \in 1 .. Len(acts) : Resume(a)
    \/ \E a \in 1 .. Len(acts) : ExternalReturn(a)

SpecProp == Init /\ [][NextProp]_vars

\* ------------------------------------------------------------------------
\* Inventory sync: a client of one tenant posts batches to /a/inventory/sync
\* and sends inventorySync frames on a session at /a.  A batch is a list of
\* updates of one item; a frame may carry null for an update.
\* ------------------------------------------------------------------------
SyncSuffix == <<"/", "inventory", "/", "sync">>

SyncUpdates ==
    {[isNull |-> FALSE, sku |-> "s1", quantity |-> q, operation |-> "set"] :
        q \in {DefaultThreshold + 1, DefaultThreshold + 2}}

NullUpdate == [isNull |-> TRUE, sku |-> "", quantity |-> 0, operation |-> ""]

RECURSIVE Batches(_, _)
Batches(elements, len) ==
    IF len = 0 THEN {<< >>}
    ELSE LET shorter == Batches(elements, len - 1)
         IN shorter \cup {Append(b, u) : b \in shorter, u \in elements}

SyncBodies ==
    {[NoBody EXCEPT !.type = "inventorySync", !.updates = b] : b \in Batches(SyncUpdates, MaxBatch)}

SyncFrames ==
    {[NoBody EXCEPT !.type = "inventorySync", !.updates = b] :
        b \in Batches(SyncUpdates \cup {NullUpdate}, MaxBatch)}

NextSync ==
    \/ \E b \in SyncBodies :
          /\ ops < MaxSyncOps /\ AtRest
          /\ HttpRequest("path", "acme", <<"a">>, SyncSuffix, "POST", b)
    \/ ops < MaxSyncOps /\ Len(socks) < 1 /\ WsOpen("path", "acme", <<"a">>)
    \/ \E ws \in 1 .. Len(socks), data \in SyncFrames :
          ops < MaxSyncOps /\ AtRest /\ WsMessage(ws, data)
    \/ \E a \in 1 .. Len(acts) : Deliver(a)
    \/ \E a \in 1 .. Len(acts) : Resume(a)
    \/ \E a \in 1 .. Len(acts) : ExternalReturn(a)

SpecSync == Init /\ [][NextSync]_vars

\* ------------------------------------------------------------------------
\* Failing sends: sessions of one tenant at /a send increment and ping
\* frames; the connection of a session may break while its socket stays open.
\* ------------------------------------------------------------------------
SendFrames == {[NoBody EXCEPT !.type = "increment"], [NoBody EXCEPT !.type = "ping"]}

NextSend ==
    \/ ops < MaxSendOps /\ Len(socks) < MaxSessions /\ WsOpen("path", "acme", <<"a">>)
    \/ \E ws \in 1 .. Len(socks), data \in SendFrames :
          ops < MaxSendOps /\ WsMessage(ws, data)
    \/ \E ws \in 1 .. Len(socks) : ops < MaxSendOps /\ SocketBreaks(ws)
    \/ \E ws \in 1 .. Len(socks) : ops < MaxSendOps /\ WsClose(ws)

SpecSend == Init /\ [][NextSend]_vars

\* ------------------------------------------------------------------------
\* Verbs: a client of one tenant sends GET, POST and PUT requests to the
\* endpoints /state, /increment, /delete-subtree and /inventory/stock of the
\* agent at /a, which a session has given a child and a counter.
\* ------------------------------------------------------------------------
Verbs == {"GET", "POST", "PUT"}

VerbSuffixes ==
    {<<"/", "state">>, <<"/", "increment">>, <<"/", "delete-subtree">>, StockSuffix}

VerbBody == [NoBody EXCEPT !.type = "stockUpdate", !.sku = "s1",
                           !.quantity = DefaultThreshold + 1, !.operation = "set"]

VerbFrames ==
    {[NoBody EXCEPT !.type = "createAgent", !.name = "a"], [NoBody EXCEPT !.type = "increment"]}

NextVerb ==
    \/ \E suffix \in VerbSuffixes, method \in Verbs :
          /\ ops < MaxVerbOps /\ AtRest
          /\ HttpRequest("path", "acme", <<"a">>, suffix, method, VerbBody)
    \/ ops < MaxVerbOps /\ Len(socks) < 1 /\ WsOpen("path", "acme", <<"a">>)
    \/ \E ws \in 1 .. Len(socks), data \in VerbFrames :
          ops < MaxVerbOps /\ AtRest /\ WsMessage(ws, data)
    \/ \E a \in 1 .. Len(acts) : Deliver(a)
    \/ \E a \in 1 .. Len(acts) : Resume(a)
    \/ \E a \in 1 .. Len(acts) : ExternalReturn(a)

SpecVerb == Init /\ [][NextVerb]_vars

\* ------------------------------------------------------------------------
\* Stock updates and reloads: a session of one tenant at /a creates a child
\* (createAgent forgets that the state is loaded) and sends stock updates;
\* while the session is open, HTTP requests at /a post stock updates and
\* read the state.  Nothing waits for anything, and the parent has not
\* answered yet.
\* ------------------------------------------------------------------------
ReloadFrames ==
    {[NoBody EXCEPT !.type = "createAgent", !.name = "a"],
     [NoBody EXCEPT !.type = "stockUpdate", !.sku = "s1",
                    !.quantity = DefaultThreshold + 2, !.operation = "set"]}

ReloadRequests ==
    {[suffix |-> StockSuffix, method |-> "POST",
      body |-> [NoBody EXCEPT !.type = "stockUpdate", !.sku = "s1",
                              !.quantity = DefaultThreshold + 1, !.operation = "set"]],
     [suffix |-> <<"/", "state">>, method |-> "GET", body |-> NoBody]}

NextReload ==
    \/ \E r \in ReloadRequests :
          /\ ops < MaxReloadOps /\ Len(socks) = 1
          /\ HttpRequest("path", "acme", <<"a">>, r.suffix, r.method, r.body)
    \/ ops < MaxReloadOps /\ Len(socks) < 1 /\ WsOpen("path", "acme", <<"a">>)
    \/ \E ws \in 1 .. Len(socks), data \in ReloadFrames :
          ops < MaxReloadOps /\ WsMessage(ws, data)
    \/ \E a \in 1 .. Len(acts) : ExternalReturn(a)

SpecReload == Init /\ [][NextReload]_vars

\* ------------------------------------------------------------------------
\* Hibernation: sessions of one tenant at /a open, send increment frames and
\* close, and the runtime lets the agent hibernate between two events.
\* ------------------------------------------------------------------------
NextHibernate ==
    \/ ops < MaxHibernateOps /\ Len(socks) < MaxSessions /\ WsOpen("path", "acme", <<"a">>)
    \/ \E ws \in 1 .. Len(socks) :
          ops < MaxHibernateOps /\ WsMessage(ws, [NoBody EXCEPT !.type = "increment"])
    \/ \E ws \in 1 .. Len(socks) : ops < MaxHibernateOps /\ WsClose(ws)
    \/ \E n \in DOMAIN inst : ops < MaxHibernateOps /\ Hibernate(n)

SpecHibernate == Init /\ [][NextHibernate]_vars

\* ------------------------------------------------------------------------
\* Claims
\* ------------------------------------------------------------------------
\* the activations whose handler has started
Accepted == {a \in 1 .. Len(acts) : acts[a].accepted > 0}

\* activation b started at the object of activation a after a had started
\* and before a had finished
StartedWhileSuspended(a, b) ==
    /\ acts[a].obj = acts[b].obj
    /\ acts[a].accepted < acts[b].accepted
    /\ (acts[a].pc = "done" => acts[a].finished >= acts[b].accepted)

\* C1: all operations addressed to one OwnerKey are strictly serialized:
\* while an operation is suspended awaiting a peer call or a timer, no other
\* operation of the same object starts.
Serialized ==
    \A a \in Accepted, b \in Accepted : ~StartedWhileSuspended(a, b)

\* the object the Router addresses for an API request of (tenant t, path)
RouterAddress(t, path) ==
    Route(HostOf("path", t), ApiUrl("path", t, SplitPath(path), <<"/", "state">>),
          "GET", FALSE).id

\* C2: every request the Router forwards for (tenant, path), an HTTP call or
\* the upgrade on <path>/ws, goes to the one object whose key is
\* <tenant>:<canonical-path>, the root being written "/".
OneAgentPerTenantPath ==
    \A f \in forwards : f.id = <<f.tenant, ":">> \o f.path

\* the agent-to-agent calls whose handler has started
PeerCalls == {a \in Accepted : acts[a].caller # 0}

\* C3: an agent-to-agent call issued under tenant T reaches the object the
\* Router addresses for (T, target path) and is handled there under the
\* target's tenant and path.
PeerCallsUseRouterKey ==
    \A a \in PeerCalls :
        /\ acts[a].obj = RouterAddress(acts[a].req.targetTenant, acts[a].req.targetPath)
        /\ acts[a].handledAs = [tenantId |-> acts[a].req.targetTenant,
                                currentPath |-> acts[a].req.targetPath]

\* C5: the stock of every item of every agent is at least 0, whatever entry
\* point changed it.
StockNonNegative ==
    \A n \in DOMAIN inst : \A k \in DOMAIN inst[n].inventory :
        inst[n].inventory[k].currentStock >= 0

\* the tenants whose operation runs a handler piece in this step
StepOrigins ==
    {acts'[a].origin : a \in {b \in 1 .. Len(acts') : b > Len(acts) \/ acts'[b] # acts[b]}}

\* the state, the stored rows or the frames of the subscribers of object n
\* change in this step
Changed(n) ==
    \/ inst'[n] # inst[n]
    \/ store'[n] # store[n]
    \/ \E ws \in 1 .. Len(socks) : socks[ws].obj = n /\ socks'[ws] # socks[ws]

\* C4: tenant isolation by key: a step of an operation issued under tenant
\* T1, cascades, broadcasts and parent propagation included, never changes
\* the state, the stored messages or the subscribers' frames of an agent
\* that holds the data of another tenant T2.
TenantIsolation ==
    [][\A n \in DOMAIN inst :
          Changed(n) => \A t2 \in touched[n], t1 \in StepOrigins : t1 = t2]_vars

\* C6: a decrement of quantity q applied to an item whose stock is s sets
\* the stock to max(0, s - q).
DecrementClamps ==
    [][(lastUpdate' # lastUpdate /\ lastUpdate'.operation = "decrement") =>
          inst'[lastUpdate'.obj].inventory[lastUpdate'.sku].currentStock =
              Max(0, lastUpdate'.before - lastUpdate'.quantity)]_vars

\* a decrement larger than the positive stock it met has left the stock at 0
DecrementBelowZero ==
    /\ lastUpdate.operation = "decrement"
    /\ lastUpdate.before > 0
    /\ lastUpdate.quantity > lastUpdate.before
    /\ acts[lastUpdate.a].pc = "embedding"
    /\ inst[lastUpdate.obj].inventory[lastUpdate.sku].currentStock = 0

\* the step in which deleteAgent of activation a goes on after its await
DeleteCompletes(a) ==
    acts[a].kind = "deleteAgent" /\ acts[a].pc = "awaitChild" /\ acts'[a].pc = "done"

\* the frame of the catch block of deleteAgent
CascadeNotice(name) ==
    [type |-> "message", from |-> System,
     content |-> <<"Deleted", name, "(cascade may have failed)">>]

FramesInAcceptanceOrder ==
    \A ws \in 1 .. Len(socks) :
        LET fr == socks[ws].frames
        IN /\ \A i \in 1 .. Len(fr) : fr[i].op \in Accepted
           /\ \A i, j \in 1 .. Len(fr) :
                 i < j => acts[fr[i].op].accepted <= acts[fr[j].op].accepted

\* a createAgent of name at object n had run when activation a started, and
\* no deleteAgent of it had started since
CreatedBefore(n, name, a) ==
    \E c \in Accepted :
        /\ acts[c].obj = n /\ acts[c].kind = "createAgent" /\ acts[c].arg.name = name
        /\ acts[c].accepted < acts[a].accepted
        /\ \A d \in Accepted :
              (acts[d].obj = n /\ acts[d].kind = "deleteAgent" /\ acts[d].arg.name = name)
                  => ~(acts[c].accepted < acts[d].accepted /\ acts[d].accepted < acts[a].accepted)

\* object n is terminated: no children, counter 0, no open subscription, and
\* a persisted row, if any, that says the same
Terminated(n) ==
    n \in DOMAIN inst' =>
        /\ inst'[n].agents = {}
        /\ inst'[n].counter = 0
        /\ \A ws \in 1 .. Len(socks') : socks'[ws].obj = n => ~socks'[ws].open
        /\ \A k \in DOMAIN store'[n].fleet_state :
              store'[n].fleet_state[k].agents = {} /\ store'[n].fleet_state[k].counter = 0

\* C7: deleting child a at the root when /a, /a/b and /a/b/c exist leaves
\* each of the three agents terminated: no children, counter 0, cleared
\* rows, subscriptions closed (the children b and c are both named a here).
CascadeTerminatesSubtree ==
    [][\A a \in 1 .. Len(acts) :
          (/\ DeleteCompletes(a)
           /\ ~Threw(a)
           /\ acts[a].handledAs.currentPath = Root
           /\ LET t == acts[a].handledAs.tenantId
              IN /\ CreatedBefore(acts[a].obj, "a", a)
                 /\ CreatedBefore(RouterAddress(t, <<"/", "a">>), "a", a)
                 /\ CreatedBefore(RouterAddress(t, <<"/", "a", "/", "a">>), "a", a))
          => LET t == acts[a].handledAs.tenantId
             IN /\ Terminated(RouterAddress(t, <<"/", "a">>))
                /\ Terminated(RouterAddress(t, <<"/", "a", "/", "a">>))
                /\ Terminated(RouterAddress(t, <<"/", "a", "/", "a", "/", "a">>))]_vars

\* the step in which the broadcast of activation a is over
BroadcastCompletes(a) ==
    /\ acts'[a].kind = "broadcast" /\ acts'[a].pc = "done"
    /\ (a > Len(acts) \/ acts[a].pc # "done")

\* the number of message frames from the broadcast of activation a, sent
\* from sender, among the frames of session ws
Copies(ws, a, sender) ==
    Cardinality({i \in 1 .. Len(socks'[ws].frames) :
        LET f == socks'[ws].frames[i]
        IN /\ f.type = "message"
           /\ f.from = sender
           /\ f.content = acts'[a].arg.content
           /\ (f.op = a \/ acts'[f.op].caller = a)})

\* session ws was open when activation a started and still is
OpenThroughout(ws, a) ==
    /\ socks'[ws].open
    /\ \E b \in 1 .. Len(acts') :
          acts'[b].kind = "open" /\ acts'[b].ws = ws /\ acts'[b].accepted < acts'[a].accepted

\* C9: a broadcast sent at path P is delivered exactly once to every open
\* subscription of each direct child of P and exactly once to every open
\* subscription of P itself, as a message frame whose sender is the
\* broadcast prefix followed by P.
BroadcastReachesChildren ==
    [][\A a \in 1 .. Len(acts') : (BroadcastCompletes(a) /\ ~Threw(a)') =>
          LET n == acts'[a].obj
              P == acts'[a].handledAs.currentPath
              t == acts'[a].handledAs.tenantId
              children == {c \in Names : a <= Len(acts) /\ \E b \in 1 .. Len(acts') :
                              acts'[b].caller = a /\
                              acts'[b].req.targetPath = ChildPath([currentPath |-> P], c)}
              targets == {n} \cup
                         {RouterAddress(t, ChildPath([currentPath |-> P], c)) : c \in children}
          IN \A ws \in 1 .. Len(socks') :
                (socks'[ws].obj \in targets /\ OpenThroughout(ws, a))
                    => Copies(ws, a, <<PrefixBroadcast>> \o P) = 1]_vars

\* the positions of the frames of session ws that deliver stored message id
Deliveries(ws, id) ==
    {i \in 1 .. Len(socks[ws].frames) :
        /\ socks[ws].frames[i].type = "chatResponse"
        /\ socks[ws].frames[i].id = id}

\* C11: within one subscription session the same stored message (same
\* message id) is never delivered twice, the history replay sent when the
\* session opens included.
NoMessageDeliveredTwice ==
    \A ws \in 1 .. Len(socks), id \in 1 .. nextMsg : Cardinality(Deliveries(ws, id)) <= 1

\* no handler of object n is in progress
Idle(n) ==
    \A a \in 1 .. Len(acts) : acts[a].obj = n => acts[a].pc \in {"queued", "done", "failed"}

\* the instance of object n a restart leaves once the next request of its
\* owner has been through the constructor and the prologue of fetch()
Reloaded(n) ==
    LET w0 == [World EXCEPT !.inst = Without(inst, {n})]
    IN FetchPrologue(GetStub(w0, n), n, <<inst[n].tenantId>>, inst[n].currentPath).inst[n]

\* the persisted part of an instance
Persistent(o) ==
    [counter |-> o.counter, agents |-> o.agents, agentType |-> o.agentType,
     inventory |-> o.inventory]

\* C12: persistence round trip: once the operations of an agent are over, a
\* new instance for the same owner that loads from the store has the same
\* counter, children, agent type and inventory items (stock, threshold) as
\* the instance before the restart.
PersistenceRoundTrip ==
    \A n \in DOMAIN inst : Idle(n) => Persistent(Reloaded(n)) = Persistent(inst[n])

\* an agent that was restarted (its first session was closed, and no close
\* is ever sent here) and constructed again for a second session, with a
\* child or a stock item reloaded from the store
RestartedWithState ==
    \E n \in DOMAIN inst :
        /\ Idle(n)
        /\ \E ws \in 1 .. Len(socks) : socks[ws].obj = n /\ ~socks[ws].open
        /\ \E ws \in 1 .. Len(socks) : socks[ws].obj = n /\ socks[ws].open
        /\ inst[n].agents # {} \/ DOMAIN inst[n].inventory # {}

\* the positions of the chatStats frames of session ws
ChatStatsAt(ws) ==
    {i \in 1 .. Len(socks[ws].frames) : socks[ws].frames[i].type = "chatStats"}

\* what a chatStats frame tells
StatsOf(f) ==
    [messagesToday |-> f.messagesToday, actionsExecuted |-> f.actionsExecuted,
     successRate |-> f.successRate]

\* session late was opened on the instance that followed the restart which
\* closed session early
OpenedAfterRestartOf(early, late) ==
    /\ early < late
    /\ socks[early].obj = socks[late].obj
    /\ ~socks[early].open
    /\ socks[late].open
    /\ \A k \in early + 1 .. late - 1 : socks[k].obj = socks[early].obj => socks[k].open

\* C13: chat statistics survive a restart within one UTC day: the chatStats
\* frame a new session receives after the agent is instantiated again carries
\* the messagesToday, actionsExecuted and successRate of the last chatStats
\* frame published before the restart.
ChatStatsSurviveRestart ==
    \A early \in 1 .. Len(socks), late \in 1 .. Len(socks) :
        (OpenedAfterRestartOf(early, late) /\ ChatStatsAt(early) # {} /\ ChatStatsAt(late) # {})
        => LET last == CHOOSE i \in ChatStatsAt(early) : \A j \in ChatStatsAt(early) : j <= i
               first == CHOOSE i \in ChatStatsAt(late) : \A j \in ChatStatsAt(late) : i <= j
           IN StatsOf(socks[late].frames[first]) = StatsOf(socks[early].frames[last])

\* C14: after every chat statistics update 0 <= successRate <= 100, and
\* successRate is successfulActions / actionsExecuted * 100 when
\* actionsExecuted > 0 and 0 when actionsExecuted = 0.
SuccessRateConsistent ==
    \A n \in DOMAIN inst :
        LET stats == inst[n].chatStats
            num == stats.successRate[1]
            den == stats.successRate[2]
        IN /\ den > 0
           /\ 0 <= num /\ num <= 100 * den
           /\ (stats.actionsExecuted > 0 =>
                 num * stats.actionsExecuted = stats.successfulActions * 100 * den)
           /\ (stats.actionsExecuted = 0 => num = 0)

\* an agent whose chat actions partly failed: one of two succeeded
HalfOfActionsSucceeded ==
    \E n \in DOMAIN inst :
        /\ inst[n].chatStats.actionsExecuted = 2
        /\ inst[n].chatStats.successfulActions = 1
        /\ \E ws \in 1 .. Len(socks) : \E i \in 1 .. Len(socks[ws].frames) :
              /\ socks[ws].obj = n
              /\ socks[ws].frames[i].type = "chatStats"
              /\ socks[ws].frames[i].successRate = 5000

\* the stock the stock update applied last has left
LastStockAfter ==
    ApplyOperation(lastUpdate.operation, lastUpdate.before, lastUpdate.quantity)

\* the stock update applied last is past its low-stock analysis and had left
\* the stock at or under the threshold of its item
LastUpdateWasLow ==
    /\ lastUpdate.a # 0
    /\ acts[lastUpdate.a].pc \in {"awaitParent", "done"}
    /\ lastUpdate.obj \in DOMAIN inst
    /\ LastStockAfter <= inst[lastUpdate.obj].inventory[lastUpdate.sku].lowStockThreshold

\* the rows of a table written for stock update a
RowsOf(table, a) == {i \in 1 .. Len(table) : table[i].op = a}

\* session ws was open at object n when activation a started, and still is
SessionSince(ws, n, a) ==
    /\ socks[ws].obj = n
    /\ socks[ws].open
    /\ \E b \in Accepted :
          acts[b].kind = "open" /\ acts[b].ws = ws /\ acts[b].accepted < acts[a].accepted

\* C15: a stock mutation that leaves currentStock <= lowStockThreshold emits
\* a lowStockAlert and writes exactly one inventory_analysis row and exactly
\* one inventory_decisions row for that mutation, whether or not the model
\* call or the workflow dispatch succeeds.
LowStockRowsWritten ==
    LastUpdateWasLow =>
        LET a == lastUpdate.a
            n == lastUpdate.obj
        IN /\ \A ws \in 1 .. Len(socks) :
                 SessionSince(ws, n, a) =>
                    \E i \in 1 .. Len(socks[ws].frames) :
                        /\ socks[ws].frames[i].type = "lowStockAlert"
                        /\ socks[ws].frames[i].op = a
           /\ Cardinality(RowsOf(store[n].inventory_analysis, a)) = 1
           /\ Cardinality(RowsOf(store[n].inventory_decisions, a)) = 1

\* the stock updates object n has accepted
StockUpdatesAt(n) == {a \in Accepted : acts[a].obj = n /\ acts[a].kind = "stockUpdate"}

\* a and b are the only stock updates of object n, both valid, both over, b
\* accepted after a was over, and both set the same SKU to the same quantity
SetTwice(n, a, b) ==
    /\ StockUpdatesAt(n) = {a, b}
    /\ acts[a].pc = "done" /\ acts[b].pc = "done"
    /\ acts[a].finished < acts[b].accepted
    /\ StockUpdateSchema(acts[a].arg) /\ StockUpdateSchema(acts[b].arg)
    /\ acts[a].arg.operation = "set" /\ acts[b].arg.operation = "set"
    /\ acts[a].arg.sku = acts[b].arg.sku
    /\ acts[a].arg.quantity = acts[b].arg.quantity

\* C20: two consecutive set updates of one SKU to the same quantity k leave
\* currentStock = k, as a single one does, and record exactly two rows in
\* inventory_transactions.
SetIsIdempotentWithTwoRows ==
    \A n \in DOMAIN inst : \A a \in StockUpdatesAt(n), b \in StockUpdatesAt(n) :
        SetTwice(n, a, b) =>
            /\ inst[n].inventory[acts[a].arg.sku].currentStock = acts[a].arg.quantity
            /\ Len(store[n].inventory_transactions) = 2

\* the path of the parent of the agent at path
ParentOf(path) ==
    LET parts == SplitPath(path)
    IN IF Len(parts) <= 1 THEN Root ELSE <<"/">> \o JoinPath(DropLast(parts, 1))

\* stock update a of a client is over and has emitted a lowStockAlert
LowStockChainRan(a) ==
    /\ acts[a].kind = "stockUpdate"
    /\ acts[a].caller = 0
    /\ acts[a].pc = "done"
    /\ \E ws \in 1 .. Len(socks) : \E i \in 1 .. Len(socks[ws].frames) :
          socks[ws].frames[i].type = "lowStockAlert" /\ socks[ws].frames[i].op = a

\* C16: when a stock mutation at a non-root agent (T, P) triggers the
\* low-stock chain, the parent agent (T, parent of P) receives an inbound
\* message about it, stores it and broadcasts it to its subscribers.
LowStockReachesParent ==
    \A a \in Accepted :
        (LowStockChainRan(a) /\ acts[a].handledAs.currentPath # Root) =>
            LET child == acts[a].handledAs.currentPath
                parent == TenantFleetId(acts[a].handledAs.tenantId, ParentOf(child))
            IN /\ parent \in DOMAIN store
               /\ \E i \in 1 .. Len(store[parent].stored_messages) :
                     store[parent].stored_messages[i].from_agent = child

\* the kinds of activation that are new work for an agent
Work == {"createAgent", "increment", "stockUpdate", "message", "open"}

\* activation b starts in this step, as new work of an object on which a
\* delete-subtree has started before
StartsAfterDeleteSubtree(b) ==
    /\ acts'[b].accepted > 0
    /\ b <= Len(acts) => acts[b].accepted = 0
    /\ acts'[b].kind \in Work
    /\ \E a \in Accepted : acts[a].kind = "deleteSubtree" /\ acts[a].obj = acts'[b].obj

\* C17: once delete-subtree has started on an agent (DRAINING) and after it
\* has finished (TERMINATED) the agent accepts no new work: a create child,
\* increment, stock update, message or subscription arriving then changes no
\* state of the agent.
NoWorkAfterDeleteSubtree ==
    [][\A b \in 1 .. Len(acts') :
          StartsAfterDeleteSubtree(b) =>
              LET n == acts'[b].obj
              IN /\ Persistent(inst'[n]) = Persistent(inst[n])
                 /\ inst'[n].websockets = inst[n].websockets
                 /\ store'[n] = store[n]]_vars

\* the state frames of session ws, in the order they were sent
StateFrames(ws) == SelectSeq(socks[ws].frames, LAMBDA f : f.type = "state")

\* frame f was sent by a handler of kind for the child name
SentBy(f, kind, name) == acts[f.op].kind = kind /\ acts[f.op].arg.name = name

\* when the state frames i+1 and i+2 of session ws come from a create and a
\* delete of child s, frame i+2 shows the children of frame i, and a create
\* of s right after shows the children of frame i+1
CreateDeleteCreate(ws, i, s) ==
    LET F == StateFrames(ws)
    IN (/\ i + 2 <= Len(F)
        /\ SentBy(F[i + 1], "createAgent", s)
        /\ SentBy(F[i + 2], "deleteAgent", s))
       => /\ F[i + 2].agents = F[i].agents
          /\ (i + 3 <= Len(F) /\ SentBy(F[i + 3], "createAgent", s))
                => F[i + 3].agents = F[i + 1].agents

\* C19: create child s followed by delete child s restores the children set
\* to its pre-create value, and a create of s that follows is accepted and
\* gives the children set the first create gave.
CreateDeleteRoundTrip ==
    \A ws \in 1 .. Len(socks) : \A i \in 1 .. Len(StateFrames(ws)), s \in CycleNames :
        CreateDeleteCreate(ws, i, s)

\* a session that saw child a created, deleted and created again beside child b
CreatedDeletedCreated ==
    \E ws \in 1 .. Len(socks) : \E i \in 1 .. Len(StateFrames(ws)) :
        LET F == StateFrames(ws)
        IN /\ i + 3 <= Len(F)
           /\ F[i].agents = {"b"}
           /\ SentBy(F[i + 1], "createAgent", "a")
           /\ SentBy(F[i + 2], "deleteAgent", "a")
           /\ SentBy(F[i + 3], "createAgent", "a")
           /\ F[i + 3].agents = {"a", "b"}

\* message m is older than the retention period
Expired(m) == m.timestamp < now - RetentionDays

\* the elements of sequence s, as a set
Range(s) == {s[i] : i \in 1 .. Len(s)}

\* activation a starts in this step with the periodic cleanup drawn
PurgeRuns(a) ==
    /\ a = Len(acts) + 1
    /\ a <= Len(acts')
    /\ acts'[a].arg.cleanup

\* C18: when the message purge runs at an agent, afterwards no stored
\* message of the agent older than the retention period (30 days) remains,
\* in the store or in the in-memory ring, and no message younger than the
\* retention period has been removed.
PurgeRemovesExpiredOnly ==
    [][\A a \in 1 .. Len(acts') :
          PurgeRuns(a) =>
              LET n == acts'[a].obj
                  rowsBefore == IF n \in DOMAIN store THEN Range(store[n].stored_messages) ELSE {}
                  ringBefore == IF n \in DOMAIN inst THEN Range(inst[n].messages) ELSE {}
              IN /\ \A r \in Range(store'[n].stored_messages) : ~Expired(r)
                 /\ \A m \in Range(inst'[n].messages) : ~Expired(m)
                 /\ \A r \in rowsBefore : ~Expired(r) => r \in Range(store'[n].stored_messages)
                 /\ \A m \in ringBefore : ~Expired(m) => m \in Range(inst'[n].messages)]_vars

\* a purge has run at an agent and has removed a message older than the
\* retention period while a message of just that age is still there, in the
\* store and in the ring
PurgedExpiredKeptYoung ==
    \E a \in Accepted :
        LET n == acts[a].obj
        IN /\ acts[a].arg.cleanup
           /\ Len(store[n].stored_messages) < nextMsg - 1
           /\ \E r \in Range(store[n].stored_messages) : r.timestamp = now - RetentionDays
           /\ \E m \in Range(inst[n].messages) : m.timestamp = now - RetentionDays
\* delete-subtree a of object n is over and no handler has started at n since
LastWasDeleteSubtree(n, a) ==
    /\ acts[a].kind = "deleteSubtree"
    /\ acts[a].obj = n
    /\ acts[a].pc = "done"
    /\ \A c \in Accepted : acts[c].obj = n => acts[c].accepted <= acts[a].finished

\* delete-subtree b starts in this step at an object whose last handler was a
\* delete-subtree too
SecondDeleteSubtree(b) ==
    /\ acts'[b].kind = "deleteSubtree"
    /\ acts'[b].accepted > 0
    /\ b <= Len(acts) => acts[b].accepted = 0
    /\ \E a \in Accepted : LastWasDeleteSubtree(acts'[b].obj, a)

\* C21: delete-subtree is idempotent: a second call on the same agent finds
\* no children (it awaits no child), returns 200 and leaves the state of the
\* agent, in memory and in the store, as the first call left it.
DeleteSubtreeIdempotent ==
    [][\A b \in 1 .. Len(acts') :
          SecondDeleteSubtree(b) =>
              LET n == acts'[b].obj
              IN /\ acts'[b].pc = "done"
                 /\ acts'[b].status = 200
                 /\ Len(acts') <= Len(acts) + 1
                 /\ inst'[n] = inst[n]
                 /\ store'[n] = store[n]
                 /\ socks' = socks]_vars

\* an agent whose subtree was deleted twice in a row by its client, the
\* first time with a child to delete and a counter to reset
DeletedSubtreeTwice ==
    \E n \in DOMAIN inst : \E a \in Accepted, b \in Accepted :
        /\ LastWasDeleteSubtree(n, b)
        /\ acts[a].kind = "deleteSubtree" /\ acts[a].obj = n /\ acts[a].pc = "done"
        /\ acts[a].caller = 0 /\ acts[b].caller = 0
        /\ acts[a].finished < acts[b].accepted
        /\ \E c \in 1 .. Len(acts) : acts[c].caller = a
        /\ \E c \in Accepted : acts[c].obj = n /\ acts[c].kind = "increment"
\* the name is a segment: 1 to 32 characters out of letters, digits, space,
\* underscore and dash
SegmentPattern(name) ==
    /\ Len(Chars(name)) >= 1
    /\ Len(Chars(name)) <= 32
    /\ \A i \in 1 .. Len(Chars(name)) : Chars(name)[i] \in Alphanumeric \cup {" ", "_", "-"}

\* create child b starts in this step
CreateStarts(b) ==
    /\ b = Len(acts) + 1
    /\ b <= Len(acts')
    /\ acts'[b].kind = "createAgent"

\* C22: create child accepts a name exactly when, trimmed, it is 1 to 32
\* characters out of letters, digits, space, underscore and dash; any other
\* name is rejected with an error frame and leaves the children set
\* unchanged.
NameAcceptedIffSegment ==
    [][\A b \in 1 .. Len(acts') :
          CreateStarts(b) =>
              LET n == acts'[b].obj
                  name == Trim(acts'[b].arg.name)
                  ws == acts'[b].ws
              IN IF SegmentPattern(name)
                 THEN inst'[n].agents = inst[n].agents \cup {name}
                 ELSE /\ inst'[n].agents = inst[n].agents
                      /\ \E i \in 1 .. Len(socks'[ws].frames) :
                            /\ socks'[ws].frames[i].type = "error"
                            /\ socks'[ws].frames[i].op = b]_vars
\* C23: path canonicalization: the requests of one tenant addressed to a
\* path, with or without the trailing slash, are all routed to the same
\* agent.
TrailingSlashSameAgent ==
    \A f \in forwards, g \in forwards :
        (f.tenant = g.tenant /\ f.path = g.path) => f.id = g.id
\* create child b starts in this step and adds a name to the children set
CreateSucceeds(b) ==
    /\ CreateStarts(b)
    /\ Trim(acts'[b].arg.name) \notin inst[acts'[b].obj].agents
    /\ Trim(acts'[b].arg.name) \in inst'[acts'[b].obj].agents

UiUnlessApiSuffix ==
    \A q \in routed :
        /\ (q.method = "GET" /\ MatchingEndpoint(q.url) = 0) =>
              (q.kind = "ui" /\ q.status = 200 /\ q.tenantId = q.tenant /\ q.path = q.page)
        /\ MatchingEndpoint(q.url) # 0 => q.kind = "forward"
\* C26: the reconnect delay of the page script starts at 1 s, doubles after
\* each reconnect attempt without ever exceeding 30 s, and is 1 s again
\* whenever a connection opens; after every disconnect a reconnect attempt
\* is eventually made.
ReconnectBackoff ==
    /\ client.reconnectDelay = 1000
    /\ [](client.reconnectDelay >= 1000 /\ client.reconnectDelay <= 30000)
    /\ [][client'.attempts > client.attempts =>
             client'.reconnectDelay =
                IF 2 * client.reconnectDelay <= 30000 THEN 2 * client.reconnectDelay
                ELSE 30000]_vars
    /\ [][(client.ws # "open" /\ client'.ws = "open") => client'.reconnectDelay = 1000]_vars
    /\ \A k \in 0 .. MaxClientOps :
          (client.ws = "closed" /\ client.attempts = k) ~> (client.attempts > k)

\* the connection has failed so often that the delay is at 30 s, and the
\* timer of the next attempt is armed with it
DelayAtCap ==
    /\ client.ws = "closed"
    /\ client.reconnectDelay = 30000
    /\ client.reconnectTimeout = 30000
    /\ client.attempts >= 5

\* ------------------------------------------------------------------------
\* C27
\* ------------------------------------------------------------------------
\* a read request is accepted in this step and returns
ReadReturns(kind) ==
    /\ Len(acts') = Len(acts) + 1
    /\ acts'[Len(acts')].kind = kind
    /\ acts'[Len(acts')].pc = "done"

\* the items of an agent as a GET /inventory/stock response carries them
ItemsOf(o) == [inventory |-> o.inventory, totalItems |-> Cardinality(DOMAIN o.inventory)]

\* C27: a GET /state or GET /inventory/stock request returns the values the
\* agent holds when it is answered, those of the last write before it: no
\* read returns a cached response that a later write has made stale
ReadsReturnPostWrite ==
    [][/\ ReadReturns("getState") =>
            LET act == acts'[Len(acts')]
            IN act.out = [counter |-> inst'[act.obj].counter, agents |-> inst'[act.obj].agents]
       /\ ReadReturns("getInventory") =>
            LET act == acts'[Len(acts')]
            IN act.out = ItemsOf(inst'[act.obj])]_vars

\* C27, for GET /state alone
StateReadsReturnPostWrite ==
    [][ReadReturns("getState") =>
            LET act == acts'[Len(acts')]
            IN act.out = [counter |-> inst'[act.obj].counter, agents |-> inst'[act.obj].agents]]_vars

\* C27, for GET /inventory/stock alone
StockReadsReturnPostWrite ==
    [][ReadReturns("getInventory") =>
            LET act == acts'[Len(acts')]
            IN act.out = ItemsOf(inst'[act.obj])]_vars


\* ------------------------------------------------------------------------
\* C28
\* ------------------------------------------------------------------------
\* the frames session ws gets in this step
NewFrames(ws) ==
    LET before == IF ws \in DOMAIN socks THEN Len(socks[ws].frames) ELSE 0
    IN {socks'[ws].frames[i] : i \in before + 1 .. Len(socks'[ws].frames)}

\* a stock update of the sku of frame f was accepted by agent n after the
\* update that sent f: the row may hold its result already
LaterUpdate(f, n) ==
    /\ f.op \in 1 .. Len(acts)
    /\ \E b \in 1 .. Len(acts) :
          /\ acts[b].obj = n /\ acts[b].kind = "stockUpdate"
          /\ acts[b].arg.sku = f.sku
          /\ acts[b].accepted > acts[f.op].accepted

\* the rows of store st hold what the event frame f of the agent n at path tells
Written(f, st, n, path) ==
    LET hasRow == n \in DOMAIN st /\ path \in DOMAIN st[n].fleet_state
        row == st[n].fleet_state[path]
    IN CASE f.type = "state" ->
              IF hasRow THEN row.counter = f.counter /\ row.agents = f.agents
              ELSE f.counter = 0 /\ f.agents = {}
         [] f.type = "agentCreated" -> hasRow /\ f.name \in row.agents
         [] f.type = "agentDeleted" -> hasRow /\ f.name \notin row.agents
         [] f.type = "stockUpdate" ->
              /\ n \in DOMAIN st
              /\ f.sku \in DOMAIN st[n].inventory_items
              /\ \/ st[n].inventory_items[f.sku].current_stock = f.quantity
                 \/ LaterUpdate(f, n)
              /\ st[n].inventory_items[f.sku].location = path
         [] OTHER -> TRUE

\* C28: write-through before publish: when an operation has sent a state,
\* stockUpdate, agentCreated or agentDeleted frame to a session, the rows of
\* the agent's store hold the mutation the frame tells, so that a restart
\* right after it loses nothing a subscriber has seen
WrittenBeforePublished ==
    [][\A ws \in DOMAIN socks' : \A f \in NewFrames(ws) :
            Written(f, store', socks'[ws].obj, inst'[socks'[ws].obj].currentPath)]_vars

\* a session saw a stock update and the state, the agent was restarted, and
\* the instance constructed after it holds both
SeenThenRestarted ==
    \E ws \in DOMAIN socks :
        LET n == socks[ws].obj
            fs == socks[ws].frames
        IN /\ ~socks[ws].open
           /\ n \in DOMAIN inst
           /\ \E i \in DOMAIN fs :
                 /\ fs[i].type = "stockUpdate"
                 /\ fs[i].sku \in DOMAIN inst[n].inventory
                 /\ inst[n].inventory[fs[i].sku].currentStock = fs[i].quantity
                 /\ fs[i].quantity > 0
           /\ \E i \in DOMAIN fs : fs[i].type = "state" /\ fs[i] = StateFrame(inst[n]) @@ fs[i]


\* ------------------------------------------------------------------------
\* C29
\* ------------------------------------------------------------------------
\* activation a is accepted in this step by an instance that exists and has
\* other owner fields than those the request is handled as
OwnerChanges(a) ==
    /\ a \in 1 .. Len(acts')
    /\ nextSeq' = nextSeq + 1
    /\ acts'[a].accepted = nextSeq'
    /\ acts'[a].obj \in DOMAIN inst
    /\ acts'[a].handledAs # [tenantId |-> inst[acts'[a].obj].tenantId,
                             currentPath |-> inst[acts'[a].obj].currentPath]

\* what the tables s hold for path: the fleet_state row, the items of the
\* location, the chat rows of the location; the defaults for what is missing
PersistedFor(s, path) ==
    LET hasRow == path \in DOMAIN s.fleet_state
        row == s.fleet_state[path]
        here == {k \in DOMAIN s.inventory_items : s.inventory_items[k].location = path}
        chat == SelectSeq(s.stored_messages, LAMBDA r : r.location = path /\ IsChat(r))
    IN [counter |-> IF hasRow THEN row.counter ELSE 0,
        agents |-> IF hasRow THEN row.agents ELSE {},
        inventory |-> [k \in here |->
                         [currentStock |-> s.inventory_items[k].current_stock,
                          lowStockThreshold |-> s.inventory_items[k].low_stock_threshold]],
        messages |-> [i \in 1 .. Len(chat) |-> chat[i].id]]

\* the state of object n that a request handled as owner h works on: the
\* instance after the lines of fetch() before the dispatch
WorkedOn(n, h) ==
    LET o == FetchPrologue(World, n, <<h.tenantId>>, h.currentPath).inst[n]
    IN [counter |-> o.counter, agents |-> o.agents, inventory |-> o.inventory,
        messages |-> [i \in 1 .. Len(o.messages) |-> o.messages[i].id]]

\* C29: when the (tenant, path) of a request differs from the owner fields
\* of the instance, the state the request works on is exactly what is
\* persisted for the new path, the default empty state when nothing is, and
\* nothing of the path loaded before is carried over
OwnerChangeLoadsPersisted ==
    [][\A a \in 1 .. Len(acts') :
            OwnerChanges(a) =>
                WorkedOn(acts'[a].obj, acts'[a].handledAs)
                    = PersistedFor(store[acts'[a].obj], acts'[a].handledAs.currentPath)]_vars


\* ------------------------------------------------------------------------
\* C30
\* ------------------------------------------------------------------------
\* the ids of the chat rows the tables s hold for path, oldest first
ChatHistoryOf(s, path) ==
    LET chat == SelectSeq(s.stored_messages, LAMBDA r : r.location = path /\ IsChat(r))
    IN [i \in 1 .. Len(chat) |-> chat[i].id]

\* the frames fs are the state of agent o, then the chat rows ids as
\* chatResponse frames in their order, then the chat statistics of o
OpeningFrames(fs, o, ids) ==
    /\ Len(fs) = Len(ids) + 2
    /\ fs[1].type = "state"
    /\ fs[1].counter = o.counter /\ fs[1].agents = o.agents
    /\ \A i \in 1 .. Len(ids) : fs[i + 1].type = "chatResponse" /\ fs[i + 1].id = ids[i]
    /\ fs[Len(fs)].type = "chatStats"
    /\ fs[Len(fs)].messagesToday = o.chatStats.messagesToday
    /\ fs[Len(fs)].actionsExecuted = o.chatStats.actionsExecuted
    /\ fs[Len(fs)].successRate = Round2(o.chatStats.successRate)

\* C30: when a subscription opens, the agent is ready and the new subscriber
\* gets first the current state, then the chat history of the agent's path,
\* every stored chat message once and oldest first, then the current chat
\* statistics, and none of the three is skipped
OpeningSequence ==
    [][Len(socks') = Len(socks) + 1 =>
            LET ws == Len(socks')
                o == inst'[socks'[ws].obj]
            IN /\ o.initializationComplete
               /\ OpeningFrames(socks'[ws].frames, o,
                                ChatHistoryOf(store'[socks'[ws].obj], o.currentPath))]_vars

\* ------------------------------------------------------------------------
\* C31
\* ------------------------------------------------------------------------
\* the ids of the messages the tables s hold for path, oldest first
StoredIds(s, path) ==
    LET rows == SelectSeq(s.stored_messages, LAMBDA r : r.location = path)
    IN [i \in 1 .. Len(rows) |-> rows[i].id]

\* the ids of the messages of the ring of agent o
RingIds(o) == [i \in 1 .. Len(o.messages) |-> o.messages[i].id]

\* the ring of every agent holds at most 100 messages
RingBounded == \A n \in DOMAIN inst : Len(inst[n].messages) <= MsgMemRing

\* C31: the in-memory ring of an agent holds at most 100 messages at all
\* times, and what it holds are the most recently stored messages of the
\* agent's path: a full ring drops its oldest message for a new one
RingKeepsMostRecent ==
    \A n \in DOMAIN inst :
        /\ Len(inst[n].messages) <= MsgMemRing
        /\ RingIds(inst[n])
             = LastN(StoredIds(store[n], inst[n].currentPath), Len(inst[n].messages))

\* ------------------------------------------------------------------------
\* C32
\* ------------------------------------------------------------------------
\* the number of chat messages of users the tables s hold for path and day
UserMessagesOn(s, path, day) ==
    Len(SelectSeq(s.stored_messages,
                  LAMBDA r : r.location = path /\ r.from_agent = <<"user">>
                             /\ r.timestamp = day))

\* C32: chat statistics are per UTC day: the messagesToday a chatStats frame
\* reports counts the chat messages of the day the frame is sent on and no
\* message of an earlier day, so the counter starts again from zero after a
\* day boundary
StatsArePerDay ==
    [][\A ws \in DOMAIN socks' : \A f \in NewFrames(ws) :
            f.type = "chatStats" =>
                f.messagesToday
                    = UserMessagesOn(store'[socks'[ws].obj],
                                     inst'[socks'[ws].obj].currentPath, now')]_vars

\* ------------------------------------------------------------------------
\* C33
\* ------------------------------------------------------------------------
\* activation a has been accepted by its agent
IsAccepted(a) == a <= Len(acts) /\ acts[a].accepted > 0

\* activation a has completed and answered its caller
IsCompleted(a) == a <= Len(acts) /\ acts[a].pc \in {"done", "failed"}

\* C33: every operation an agent accepts eventually completes and answers
\* its caller, whether or not the peers and the external services it calls
\* ever answer
AcceptedCompletes ==
    \A a \in 1 .. 3 * MaxTenantOps : IsAccepted(a) ~> IsCompleted(a)

\* ------------------------------------------------------------------------
\* C34
\* ------------------------------------------------------------------------
\* the time for which the open socket has delivered nothing
SilentFor == client.clock - client.lastReceived

\* C34: an open channel is never silent for longer than IDLE_MAX plus the
\* period of the keep-alive check: the client has terminated it by then
NoSilentStall == client.ws = "open" => SilentFor <= IdleMax + KeepAliveEvery

\* ------------------------------------------------------------------------
\* C35
\* ------------------------------------------------------------------------
\* the client request that activation x descends from
RECURSIVE RootOf(_)
RootOf(x) == IF acts[x].caller = 0 THEN x ELSE RootOf(acts[x].caller)

\* the accepted stock updates of clients
ClientUpdates ==
    {r \in 1 .. Len(acts) :
        acts[r].kind = "stockUpdate" /\ acts[r].caller = 0 /\ acts[r].accepted > 0}

\* the parent calls that the update r of a client has caused
ParentCalls(r) == {x \in 1 .. Len(acts) : x # r /\ RootOf(x) = r}

\* the depth of the agent at path
Depth(path) == Len(SplitPath(path))

\* the path an accepted activation was handled at
HandledAt(x) == acts[x].handledAs.currentPath

\* C35: the propagation of a client's stock update from depth d makes at
\* most d parent calls, each one handled at the parent path of its caller
\* (strictly shorter), no path and no object twice, and none from the root
PropagationTerminates ==
    \A r \in ClientUpdates :
        /\ Cardinality(ParentCalls(r)) <= Depth(HandledAt(r))
        /\ \A x \in ParentCalls(r) :
              /\ acts[x].kind = "stockUpdate"
              /\ HandledAt(acts[x].caller) # Root
              /\ acts[x].accepted > 0 =>
                    /\ HandledAt(x) = ParentOf(HandledAt(acts[x].caller))
                    /\ Depth(HandledAt(x)) < Depth(HandledAt(acts[x].caller))
        /\ \A x \in ParentCalls(r) \cup {r}, y \in ParentCalls(r) \cup {r} :
              x # y =>
                 /\ acts[x].obj # acts[y].obj
                 /\ acts[x].accepted > 0 /\ acts[y].accepted > 0 =>
                       HandledAt(x) # HandledAt(y)

\* a client's update at depth 3 has been applied at each of its three
\* proper ancestors, the root last, and everything is over
PropagatedToRoot ==
    \E r \in ClientUpdates :
        /\ Depth(HandledAt(r)) = 3
        /\ Cardinality(ParentCalls(r)) = 3
        /\ \A x \in ParentCalls(r) \cup {r} : acts[x].pc = "done"
        /\ \E x \in ParentCalls(r) : HandledAt(x) = Root

\* ------------------------------------------------------------------------
\* C36
\* ------------------------------------------------------------------------
\* the inventory syncs that are over
SyncsDone == {a \in 1 .. Len(acts) : acts[a].kind = "inventorySync" /\ acts[a].pc = "done"}

\* the updates of a batch that can be applied
Applicable(updates) == {i \in 1 .. Len(updates) : ~updates[i].isNull}

\* C36: a sync that is over has gone through its whole batch, so that every
\* update that can be applied has been, whatever failed before it; the
\* response counts successful + failed = number of updates and lists at
\* most 10 errors
SyncAppliesWholeBatch ==
    \A a \in SyncsDone :
        /\ acts[a].step >= Cardinality(Applicable(acts[a].arg.updates))
        /\ acts[a].ws = 0 =>
              /\ acts[a].out.successful + acts[a].out.failed = Len(acts[a].arg.updates)
              /\ acts[a].out.errors <= ErrorsListed

\* ------------------------------------------------------------------------
\* C37
\* ------------------------------------------------------------------------
\* the send to subscription ws throws
SendFails(ws) == socks[ws].open /\ socks[ws].broken

\* the increment or ping frame that this step handles, as activation a
HandlesFrame(a, kind) == a = Len(acts) + 1 /\ a = Len(acts') /\ acts'[a].kind = kind

\* C37: a send that fails removes its subscription and no other, the
\* operation is carried out to its end all the same (the counter is
\* incremented and saved, the handler is over), and every other
\* subscription gets the frame
SendFailureContained ==
    [][\A a \in 1 .. Len(acts') :
          /\ HandlesFrame(a, "increment") =>
                LET n == acts'[a].obj
                    path == inst'[n].currentPath
                IN /\ acts'[a].pc = "done"
                   /\ inst'[n].counter = inst[n].counter + 1
                   /\ PersistedFor(store'[n], path).counter = inst'[n].counter
                   /\ inst'[n].websockets = inst[n].websockets \ FailingSends(World, n)
                   /\ \A ws \in inst'[n].websockets :
                         socks[ws].open =>
                            \E f \in NewFrames(ws) :
                               f.type = "state" /\ f.counter = inst'[n].counter
          /\ HandlesFrame(a, "ping") =>
                LET n == acts'[a].obj
                    ws == acts'[a].ws
                IN /\ acts'[a].pc = "done"
                   /\ inst'[n].websockets =
                         IF SendFails(ws) THEN inst[n].websockets \ {ws}
                         ELSE inst[n].websockets
                   /\ ~SendFails(ws) => \E f \in NewFrames(ws) : f.type = "pong"]_vars

\* a broadcast of the counter has reached one session and not the other,
\* whose send throws and which has left the subscriptions
FailedSendRemoved ==
    \E n \in DOMAIN inst : \E ws1 \in 1 .. Len(socks), ws2 \in inst[n].websockets :
        /\ socks[ws1].obj = n
        /\ SendFails(ws1)
        /\ ws1 \notin inst[n].websockets
        /\ inst[n].counter > 0
        /\ \E i \in 1 .. Len(socks[ws2].frames) :
              /\ socks[ws2].frames[i].type = "state"
              /\ socks[ws2].frames[i].counter = inst[n].counter
        /\ \A i \in 1 .. Len(socks[ws1].frames) :
              socks[ws1].frames[i].type = "state" =>
                 socks[ws1].frames[i].counter < inst[n].counter

\* ------------------------------------------------------------------------
\* C38
\* ------------------------------------------------------------------------
\* the verb is not the one of the endpoint that the handler of this kind serves
WrongVerb(kind, method) ==
    \/ kind \in {"getState", "increment"} /\ method # "GET"
    \/ kind \in {"deleteSubtree", "message"} /\ method # "POST"
    \/ kind = "stockOperation"

\* what the agent of object n holds in memory, its counter, children, stock
\* and messages, and in its tables; an object that has not been
\* instantiated holds what its construction loads
Held(w, n) ==
    LET o == GetStub(w, n).inst[n]
    IN [counter |-> o.counter, agents |-> o.agents, inventory |-> o.inventory,
        messages |-> o.messages,
        tables |-> IF n \in DOMAIN w.store THEN w.store[n] ELSE NewStore]

\* the world after the step
WorldAfter == [inst |-> inst', store |-> store', socks |-> socks', nextMsg |-> nextMsg',
               now |-> now']

\* C38: a client's request with the wrong verb for its endpoint is answered
\* 405 and changes nothing of what the agent holds in memory or in its tables
WrongVerbRejected ==
    [][\A a \in 1 .. Len(acts') :
          (/\ a = Len(acts) + 1
           /\ acts'[a].caller = 0 /\ acts'[a].ws = 0
           /\ WrongVerb(acts'[a].kind, acts'[a].req.method))
          => /\ acts'[a].pc = "done"
             /\ acts'[a].status = 405
             /\ Held(WorldAfter, acts'[a].obj) = Held(World, acts'[a].obj)]_vars

\* handleStockOperation does so: a verb other than GET and POST on
\* /inventory/stock is answered 405 and changes nothing
StockVerbRejected ==
    [][\A a \in 1 .. Len(acts') :
          (a = Len(acts) + 1 /\ acts'[a].kind = "stockOperation")
          => /\ acts'[a].pc = "done"
             /\ acts'[a].status = 405
             /\ Held(WorldAfter, acts'[a].obj) = Held(World, acts'[a].obj)]_vars

\* ------------------------------------------------------------------------
\* C39
\* ------------------------------------------------------------------------
\* the stock of item sku at object n after the stock updates that n has
\* accepted up to sequence number k, applied in the order of acceptance
RECURSIVE StockUpTo(_, _, _)
StockUpTo(n, sku, k) ==
    IF k = 0 THEN 0
    ELSE LET before == StockUpTo(n, sku, k - 1)
             A == {a \in 1 .. Len(acts) :
                     /\ acts[a].accepted = k /\ acts[a].obj = n
                     /\ acts[a].kind = "stockUpdate" /\ acts[a].arg.sku = sku}
         IN IF A = {} THEN before
            ELSE LET a == CHOOSE x \in A : TRUE
                 IN ApplyOperation(acts[a].arg.operation, before, acts[a].arg.quantity)

\* every handler at object n is over or has only its parent to wait for
Settles(n) ==
    \A a \in 1 .. Len(acts) :
        acts[a].obj = n => acts[a].pc \in {"done", "failed", "awaitParent"}

\* C39: once the updates of an agent are acknowledged, the stock it holds
\* and the row it has written are the result of all the updates it
\* accepted, in the order of their acceptance, whatever was interleaved
\* with them
NoUpdateLost ==
    \A n \in DOMAIN inst :
       Settles(n) =>
         \A sku \in DOMAIN inst[n].inventory :
           /\ inst[n].inventory[sku].currentStock = StockUpTo(n, sku, nextSeq)
           /\ sku \in DOMAIN store[n].inventory_items
           /\ store[n].inventory_items[sku].current_stock = StockUpTo(n, sku, nextSeq)

\* ------------------------------------------------------------------------
\* C40
\* ------------------------------------------------------------------------
\* the sessions that are open on object n
OpenSessions(n) == {ws \in 1 .. Len(socks) : socks[ws].obj = n /\ socks[ws].open}

\* C40: the subscriptions an agent broadcasts to are the sessions open on
\* it, also when the instance has been discarded and constructed again
\* while the sessions stayed open
SubscriptionsAreOpenSessions ==
    \A n \in DOMAIN inst : inst[n].websockets = OpenSessions(n)

====
